---- MODULE Spec2Model ----
(***************************************************************************)
(* Verification model of the `containers` tool.                            *)
(*                                                                         *)
(* Spec      : one invocation of containers/src/main.rs (build phase and   *)
(*             lifecycle reconciliation) against a container engine.       *)
(* SpecLive  : Spec, with main scheduled until it returns.                 *)
(* SpecBuild : one invocation of `containers build` (src/main.rs,          *)
(*             build_containers) against the project lockfile.             *)
(* SpecRun   : one invocation of `containers run` (src/main.rs,            *)
(*             run_container).                                             *)
(* SpecLock  : callers of the per-Dockerfile Lockfile (src/lockfile.rs).   *)
(*                                                                         *)
(* Every engine subprocess is a blocking call: the program appends the     *)
(* command to `log` when it launches it (state "pending") and continues    *)
(* only when the call has returned ("ioerr": the process could not be      *)
(* launched, "exited": it ran and left an exit code).                      *)
(***************************************************************************)
EXTENDS Naturals, Integers, Sequences, FiniteSets, TLC

(***************************************************************************)
(* Bounds                                                                  *)
(***************************************************************************)
\* exit codes an engine subprocess may leave: 0..MaxExitCode
MaxExitCode == 2

ExitCodes == 0..MaxExitCode

\* what a blocking Command::status()/output() call can come back with
Outcomes ==
  {[st |-> "ioerr", code |-> 0]} \cup {[st |-> "exited", code |-> c] : c \in ExitCodes}

(***************************************************************************)
(* Program constants and inputs of containers/src/main.rs                  *)
(***************************************************************************)
image_name == "dev-env:latest"

\* env::current_dir(), taken to succeed: the process has a working directory
current_dir == "/w"

dockerfile == "/w/Dockerfile"

\* the name this invocation works on, and another container of the engine
container_name == "w"

OtherName == "w2"

ContainerNames == {container_name, OtherName}

Engines == {"docker", "podman", "nerdctl"}

VARIABLES
  \* ---- inputs of the invocation (main.rs 37-66)
  update_image,       \* args.update
  dockerfile_exists,  \* dockerfile.exists()
  container_engine,   \* CONTAINER_ENGINE
  nvidia_smi,         \* nvidia-smi is installed and exits 0
  \* ---- the engine's world
  images,             \* lines of `images --format`, each a sequence of tokens
  image_gen,          \* image the tag resolves to: "none", "old", "new" (built by this invocation)
  containers,         \* name -> [state, from]: from = generation of the image it was created from
  \* ---- the per-Dockerfile lock store beside the Dockerfile, and the Dockerfile
  lock_store,         \* Lockfile.dockerfiles as persisted: path -> DockerfileInfo
  dockerfile_file,    \* the Dockerfile on disk: [content, mtime]
  \* ---- the program
  pc,
  image_found,        \* result of image_exists (line 70): "unset", "yes", "no"
  pre_exists,         \* result of container_exists in the build phase (line 76)
  lc_exists,          \* result of container_exists at the lifecycle step (line 89)
  lc_running,         \* result of container_running (line 90)
  log,                \* engine commands launched, in order
  result,             \* "none" while running, then "Ok" or "Err"
  err,                \* the error message of an Err
  \* ---- `containers build` (src/main.rs build_containers)
  bpc,
  config_file,        \* containers.toml: [exists, containers: name -> definition]
  lock_file,          \* containers.lock as persisted: [exists, containers]
  lock_file0,         \* containers.lock before the invocation
  build_arg,          \* --container NAME, "" when absent
  config,             \* config.containers as loaded
  lockfile,           \* the in-memory Lockfile: name -> ContainerLock
  to_build,           \* containers_to_build still to go
  files,              \* files written under dockerfiles/: path -> text
  blog,               \* docker commands launched, in order
  built,              \* image tags built by this invocation
  bresult,            \* "none" while running, then "Ok" or "Err"
  berr,               \* the error message of an Err
  \* ---- callers of the per-Dockerfile Lockfile (src/lockfile.rs)
  fs_lock,            \* .containers.lock on disk: [kind, version, dockerfiles]
  fs_dockerfiles,     \* the Dockerfiles beside it: path -> [readable, content, mtime]
  lf,                 \* the Lockfile value each caller holds: caller -> Option
  ret,                \* the last call: [caller, op, path, res, val]
  phase,              \* per invocation racing on the lockfile: its position
  target,             \* per invocation racing on the lockfile: its Dockerfile
  \* ---- `containers run` (src/main.rs run_container)
  rpc,
  run_arg,            \* --container NAME
  run_cmd,            \* the trailing command
  container_config,   \* config.get_container(name), as an Option
  container_lock,     \* lockfile.containers.get(name), as an Option
  rlog,               \* docker commands launched, in order
  rexit,              \* the exit code of the process, as an Option
  rerr,               \* the error message of an Err
  \* ---- reads and writes of the lock store made by the invocation
  lock_reads,
  lock_writes,
  \* ---- EngineType (engine.rs); a string is the sequence of its characters
  eng_s,              \* the string handed to from_str
  eng_r,              \* the last Result or value: [op, res, val, msg]
  eng_text,           \* what Display wrote for the value, as an Option
  \* ---- DockerfileLocator::find (dockerfile.rs); a path is the sequence of
  \* its components, "/" the empty one
  find_pc,
  find_cwd,           \* env::current_dir(), as an Option
  find_home,          \* home::home_dir(), as an Option
  find_has,           \* the directories that hold a Dockerfile
  find_dir,           \* the local dir
  find_visited,       \* the directories whose Dockerfile was looked for, in order
  find_ret            \* the returned Option<PathBuf>

mainVars ==
  <<update_image, dockerfile_exists, container_engine, nvidia_smi, images, image_gen,
    containers, lock_store, dockerfile_file, pc, image_found, pre_exists, lc_exists,
    lc_running, log, result, err>>

buildVars ==
  <<bpc, config_file, lock_file, lock_file0, build_arg, config, lockfile, to_build,
    files, blog, built, bresult, berr>>

apiVars == <<fs_lock, fs_dockerfiles, lf, ret>>

raceVars == <<phase, target>>

runVars == <<rpc, run_arg, run_cmd, container_config, container_lock, rlog, rexit, rerr>>

engVars == <<eng_s, eng_r, eng_text>>

findVars == <<find_pc, find_cwd, find_home, find_has, find_dir, find_visited, find_ret>>

libVars == <<engVars, findVars>>

extVars == <<apiVars, raceVars, runVars, lock_reads, lock_writes, libVars>>

vars == <<mainVars, buildVars, extVars>>

inputVars == <<update_image, dockerfile_exists, container_engine, nvidia_smi>>

lockVars == <<lock_store, dockerfile_file>>

worldVars == <<images, image_gen, containers>>

obsVars == <<image_found, pre_exists, lc_exists, lc_running>>

(***************************************************************************)
(* Small helpers                                                           *)
(***************************************************************************)
EmptyMap == [k \in {} |-> 0]

Tri(b) == IF b THEN "yes" ELSE "no"

\* str::ends_with on token sequences
EndsWith(line, suffix) ==
  /\ Len(suffix) <= Len(line)
  /\ SubSeq(line, Len(line) - Len(suffix) + 1, Len(line)) = suffix

Pending == Len(log) > 0 /\ log[Len(log)].st = "pending"

Last == log[Len(log)]

\* launch an engine subprocess; gen is the image generation behind its target
Issue(argv, gen) ==
  log' = Append(log, [argv |-> argv, st |-> "pending", code |-> 0, gen |-> gen])

\* the blocking call comes back with outcome o
Return(o) == log' = [log EXCEPT ![Len(log)].st = o.st, ![Len(log)].code = o.code]

(***************************************************************************)
(* containers/src/main.rs: pure parts                                      *)
(***************************************************************************)
\* detect_nvidia_support (154-183)
detect_nvidia_support(engine, smi_ok) ==
  IF ~smi_ok THEN <<>>
  ELSE IF engine = "docker" THEN <<"--gpus", "all">>
  ELSE IF engine = "podman"
    THEN <<"--device", "nvidia.com/gpu=all", "--security-opt", "label=disable">>
  ELSE <<>>

nvidia_args == detect_nvidia_support(container_engine, nvidia_smi)

\* the closure of image_exists (196-198) over the lines of the listing
image_listed(lines, name) ==
  \E line \in lines : EndsWith(line, <<name>>) \/ EndsWith(line, <<"localhost/", name>>)

\* the closure of container_exists / container_running (213, 227)
name_listed(names, name) == \E line \in names : line = name

\* line 89: container_exists is called again at the lifecycle step, on the
\* listing of that moment; before it, a faulty variant that reuses the answer
\* of line 76 when the build phase asked
lifecycle_exists_cached(earlier, names, name) ==
  IF earlier = "unset" THEN name_listed(names, name) ELSE earlier = "yes"

lifecycle_exists(earlier, names, name) == name_listed(names, name)

\* line 70: update_image || !image_exists(..), after two faulty variants of
\* it (every invocation builds; the force flag is ignored)
should_build_always(update, found) == TRUE

should_build_ignores_force(update, found) == found = "no"

should_build(update, found) == update \/ found = "no"

\* lines 69-70: where main goes first; without a Dockerfile on disk the
\* build phase is left out, and `update_image ||` short-circuits the image
\* query.  Before it, a faulty variant that enters the build phase without
\* looking for the file.
build_phase_first_ignores_file(exists, update) ==
  IF update THEN "should_build" ELSE "image_exists"

build_phase_first(exists, update) ==
  IF ~exists THEN "container_exists"
  ELSE IF update THEN "should_build" ELSE "image_exists"

\* lines 72-73: what follows should_build; the container is looked for (and
\* removed) under the force flag only.  Before it, a faulty variant that
\* removes the container ahead of every build.
after_should_build_removes(update, build) ==
  IF build THEN "remove_container" ELSE "container_exists"

after_should_build(update, build) ==
  IF build THEN (IF update THEN "pre_container_exists" ELSE "build_image")
  ELSE "container_exists"

\* line 73/76: under the force flag the existing container is removed
\* first, after a faulty variant (the removal is skipped)
remove_first_never(update, exists) == FALSE

remove_first(update, exists) == update /\ exists

\* the command lines (230-325)
images_argv == <<"images", "--format", "table {{.Repository}}:{{.Tag}}">>

ps_all_argv == <<"ps", "-a", "--format", "table {{.Names}}">>

ps_argv == <<"ps", "--format", "table {{.Names}}">>

rm_argv(name) == <<"rm", "-f", name>>

build_argv(image, file) == <<"build", "-t", image, "-f", file, ".">>

start_argv(name) == <<"start", name>>

exec_argv(name) == <<"exec", "-it", name, "/bin/bash">>

\* create_and_run_container's command line, after a faulty variant that drops
\* the GPU arguments
run_argv_without_gpu(name, image, dir, gpu) ==
  <<"run", "-it", "--name", name, "-v", dir \o ":" \o dir, "-w", dir, image, "/bin/bash">>

run_argv(name, image, dir, gpu) ==
  <<"run", "-it", "--name", name, "-v", dir \o ":" \o dir, "-w", dir>> \o gpu
    \o <<image, "/bin/bash">>

\* what each wrapper makes of the subprocess's outcome: "Ok" or the error
remove_container_result(o) ==
  IF o.st = "ioerr" THEN "io" ELSE "Ok"

\* build_image, after a faulty variant that ignores the exit status
build_image_result_unchecked(o) ==
  IF o.st = "ioerr" THEN "io" ELSE "Ok"

build_image_result(o) ==
  IF o.st = "ioerr" THEN "io"
  ELSE IF o.code # 0 THEN "Failed to build image" ELSE "Ok"

start_container_result(o) ==
  IF o.st = "ioerr" THEN "io" ELSE "Ok"

exec_container_result(o) ==
  IF o.st = "ioerr" THEN "io"
  ELSE IF o.code # 0 THEN "Failed to exec into container" ELSE "Ok"

create_and_run_container_result(o) ==
  IF o.st = "ioerr" THEN "io"
  ELSE IF o.code # 0 THEN "Failed to create and run container" ELSE "Ok"

\* the lifecycle table (89-108): the first operation of each row, after two
\* faulty variants (the two rows of an existing container swapped; the row
\* of an absent container left out)
lifecycle_first_swapped(exists, running) ==
  IF exists THEN (IF running THEN "start_container" ELSE "exec_container")
  ELSE "create_and_run_container"

lifecycle_first_never_creates(exists, running) ==
  IF exists THEN (IF running THEN "exec_container" ELSE "start_container")
  ELSE "done"

lifecycle_first(exists, running) ==
  IF exists THEN (IF running THEN "exec_container" ELSE "start_container")
  ELSE "create_and_run_container"

\* line 95-96: what follows a start_container that returned Ok, after two
\* faulty variants (returning without attaching; starting again)
after_start_skips_exec == "done"

after_start_retries == "start_container"

after_start == "exec_container"

(***************************************************************************)
(* The engine (external collaborator): effect of each operation            *)
(***************************************************************************)
Absent == [state |-> "absent", from |-> "none"]

TagLine(engine) ==
  IF engine = "podman" THEN <<"localhost/", image_name>> ELSE <<image_name>>

\* the tag resolves to a local image
TagResolves == <<image_name>> \in images \/ <<"localhost/", image_name>> \in images

AllNames == {n \in ContainerNames : containers[n].state # "absent"}

RunningNames == {n \in ContainerNames : containers[n].state = "running"}

\* rm -f: exit 0 removes the container, any other exit leaves it
EngineRm(name, o) ==
  IF o.st = "exited" /\ o.code = 0
  THEN [containers EXCEPT ![name] = Absent] ELSE containers

\* start: exit 0 needs an existing container and leaves it running
EngineStartCan(name, o) ==
  (o.st = "exited" /\ o.code = 0) => containers[name].state # "absent"

EngineStart(name, o) ==
  IF o.st = "exited" /\ o.code = 0
  THEN [containers EXCEPT ![name].state = "running"] ELSE containers

\* exec: a session (exit 0 or the shell's own code) needs a running container
EngineExecCan(name, o) ==
  (o.st = "exited" /\ o.code = 0) => containers[name].state = "running"

\* run --name: fails on a name conflict or an unresolvable image; otherwise
\* the container is created from the current image and stops with its shell
EngineRunCan(name, o) ==
  (o.st = "exited" /\ o.code = 0)
    => (containers[name].state = "absent" /\ TagResolves)

EngineRunCreates(name, o, created) ==
  /\ created => (o.st = "exited" /\ containers[name].state = "absent" /\ TagResolves)
  /\ (o.st = "exited" /\ o.code = 0) => created

EngineRun(name, created) ==
  IF created
  THEN [containers EXCEPT ![name] = [state |-> "stopped", from |-> image_gen]]
  ELSE containers

(***************************************************************************)
(* src/lockfile.rs: the per-Dockerfile lock store                          *)
(***************************************************************************)
\* DockerfileInfo::calculate_hash (193-198): SHA-256 of the content, taken
\* as collision free: the digest stands for the bytes it was computed from
calculate_hash(content) == <<"sha256", content>>

\* DockerfileInfo::from_path (169-190) of a readable file, after a faulty
\* variant that hashes the modification time together with the content
from_path_hashes_mtime(file) ==
  [content_hash |-> calculate_hash(Append(file.content, file.mtime)),
   modified_time |-> file.mtime,
   size |-> Len(file.content)]

from_path(file) ==
  [content_hash |-> calculate_hash(file.content),
   modified_time |-> file.mtime,
   size |-> Len(file.content)]

\* Lockfile::has_dockerfile_changed (128-137) of a readable file, after a
\* faulty variant that reports a path without a record as unchanged
has_dockerfile_changed_unless_new(dockerfiles, path, file) ==
  LET current_info == from_path(file) IN
  IF path \in DOMAIN dockerfiles
  THEN \/ dockerfiles[path].content_hash # current_info.content_hash
       \/ dockerfiles[path].modified_time # current_info.modified_time
       \/ dockerfiles[path].size # current_info.size
  ELSE FALSE

has_dockerfile_changed(dockerfiles, path, file) ==
  LET current_info == from_path(file) IN
  IF path \in DOMAIN dockerfiles
  THEN \/ dockerfiles[path].content_hash # current_info.content_hash
       \/ dockerfiles[path].modified_time # current_info.modified_time
       \/ dockerfiles[path].size # current_info.size
  ELSE TRUE

(***************************************************************************)
(* containers/src/main.rs: main (36-111)                                   *)
(***************************************************************************)
Fail(msg) == pc' = "error" /\ result' = "Err" /\ err' = msg

Goto(l) == pc' = l /\ UNCHANGED <<result, err>>

\* the launch half of a blocking engine call made at label at
Call(at, argv, gen) ==
  /\ pc = at
  /\ ~Pending
  /\ Issue(argv, gen)
  /\ UNCHANGED <<inputVars, worldVars, lockVars, obsVars, pc, result, err, buildVars, extVars>>

\* line 69: if dockerfile.exists(); line 70: `update_image ||` short-circuits
build_phase ==
  /\ pc = "main"
  /\ Goto(build_phase_first(dockerfile_exists, update_image))
  /\ UNCHANGED <<inputVars, worldVars, lockVars, obsVars, log, buildVars, extVars>>

\* image_exists (185-199), called at line 70
image_exists ==
  \/ Call("image_exists", images_argv, "none")
  \/ /\ pc = "image_exists"
     /\ Pending
     /\ \E o \in Outcomes :
          /\ o.st = "exited" => o.code = 0
          /\ Return(o)
          /\ IF o.st = "ioerr"
             THEN Fail("io") /\ UNCHANGED image_found
             ELSE /\ image_found' = Tri(image_listed(images, image_name))
                  /\ Goto("should_build")
     /\ UNCHANGED <<inputVars, worldVars, lockVars, pre_exists, lc_exists, lc_running,
                    buildVars, extVars>>

\* lines 72-82: if should_build { if update_image { container_exists .. } }
decide_build ==
  /\ pc = "should_build"
  /\ Goto(after_should_build(update_image, should_build(update_image, image_found)))
  /\ UNCHANGED <<inputVars, worldVars, lockVars, obsVars, log, buildVars, extVars>>

\* container_exists (201-214), called at line 76
pre_container_exists ==
  \/ Call("pre_container_exists", ps_all_argv, "none")
  \/ /\ pc = "pre_container_exists"
     /\ Pending
     /\ \E o \in Outcomes :
          /\ o.st = "exited" => o.code = 0
          /\ Return(o)
          /\ IF o.st = "ioerr"
             THEN Fail("io") /\ UNCHANGED pre_exists
             ELSE /\ pre_exists' = Tri(name_listed(AllNames, container_name))
                  /\ Goto(IF remove_first(update_image, name_listed(AllNames, container_name))
                          THEN "remove_container" ELSE "build_image")
     /\ UNCHANGED <<inputVars, worldVars, lockVars, image_found, lc_exists, lc_running,
                    buildVars, extVars>>

\* remove_container (230-240), called at line 78
remove_container ==
  \/ Call("remove_container", rm_argv(container_name), "none")
  \/ /\ pc = "remove_container"
     /\ Pending
     /\ \E o \in Outcomes :
          /\ Return(o)
          /\ containers' = EngineRm(container_name, o)
          /\ IF remove_container_result(o) = "Ok"
             THEN Goto("build_image")
             ELSE Fail(remove_container_result(o))
     /\ UNCHANGED <<inputVars, images, image_gen, lockVars, obsVars, buildVars, extVars>>

\* build_image (242-260), called at line 84
build_image ==
  \/ Call("build_image", build_argv(image_name, dockerfile), "none")
  \/ /\ pc = "build_image"
     /\ Pending
     /\ \E o \in Outcomes :
          /\ Return(o)
          /\ IF o.st = "exited" /\ o.code = 0
             THEN /\ images' = images \cup {TagLine(container_engine)}
                  /\ image_gen' = "new"
             ELSE UNCHANGED <<images, image_gen>>
          /\ IF build_image_result(o) = "Ok"
             THEN Goto("container_exists")
             ELSE Fail(build_image_result(o))
     /\ UNCHANGED <<inputVars, containers, lockVars, obsVars, buildVars, extVars>>

\* container_exists (201-214), called at line 89
container_exists ==
  \/ Call("container_exists", ps_all_argv, "none")
  \/ /\ pc = "container_exists"
     /\ Pending
     /\ \E o \in Outcomes :
          /\ o.st = "exited" => o.code = 0
          /\ Return(o)
          /\ IF o.st = "ioerr"
             THEN Fail("io") /\ UNCHANGED lc_exists
             ELSE /\ lc_exists' = Tri(lifecycle_exists(pre_exists, AllNames, container_name))
                  /\ Goto(IF lifecycle_exists(pre_exists, AllNames, container_name)
                          THEN "container_running"
                          ELSE lifecycle_first(FALSE, FALSE))
     /\ UNCHANGED <<inputVars, worldVars, lockVars, image_found, pre_exists, lc_running,
                    buildVars, extVars>>

\* container_running (216-228), called at line 90
container_running ==
  \/ Call("container_running", ps_argv, "none")
  \/ /\ pc = "container_running"
     /\ Pending
     /\ \E o \in Outcomes :
          /\ o.st = "exited" => o.code = 0
          /\ Return(o)
          /\ IF o.st = "ioerr"
             THEN Fail("io") /\ UNCHANGED lc_running
             ELSE /\ lc_running' = Tri(name_listed(RunningNames, container_name))
                  /\ Goto(lifecycle_first(TRUE, name_listed(RunningNames, container_name)))
     /\ UNCHANGED <<inputVars, worldVars, lockVars, image_found, pre_exists, lc_exists,
                    buildVars, extVars>>

\* start_container (262-271), called at line 95
start_container ==
  \/ Call("start_container", start_argv(container_name), containers[container_name].from)
  \/ /\ pc = "start_container"
     /\ Pending
     /\ \E o \in Outcomes :
          /\ EngineStartCan(container_name, o)
          /\ Return(o)
          /\ containers' = EngineStart(container_name, o)
          /\ IF start_container_result(o) = "Ok"
             THEN Goto(after_start)
             ELSE Fail(start_container_result(o))
     /\ UNCHANGED <<inputVars, images, image_gen, lockVars, obsVars, buildVars, extVars>>

\* exec_container (273-288), called at lines 92 and 96
exec_container ==
  \/ Call("exec_container", exec_argv(container_name), containers[container_name].from)
  \/ /\ pc = "exec_container"
     /\ Pending
     /\ \E o \in Outcomes :
          /\ EngineExecCan(container_name, o)
          /\ Return(o)
          /\ IF exec_container_result(o) = "Ok"
             THEN pc' = "done" /\ result' = "Ok" /\ UNCHANGED err
             ELSE Fail(exec_container_result(o))
     /\ UNCHANGED <<inputVars, worldVars, lockVars, obsVars, buildVars, extVars>>

\* create_and_run_container (290-324), called at line 101
create_and_run_container ==
  \/ Call("create_and_run_container",
          run_argv(container_name, image_name, current_dir, nvidia_args),
          IF TagResolves THEN image_gen ELSE "none")
  \/ /\ pc = "create_and_run_container"
     /\ Pending
     /\ \E o \in Outcomes, created \in BOOLEAN :
          /\ EngineRunCan(container_name, o)
          /\ EngineRunCreates(container_name, o, created)
          /\ Return(o)
          /\ containers' = EngineRun(container_name, created)
          /\ IF create_and_run_container_result(o) = "Ok"
             THEN pc' = "done" /\ result' = "Ok" /\ UNCHANGED err
             ELSE Fail(create_and_run_container_result(o))
     /\ UNCHANGED <<inputVars, images, image_gen, lockVars, obsVars, buildVars, extVars>>

(***************************************************************************)
(* Initial states of an invocation of containers/src/main.rs               *)
(***************************************************************************)
ImageListings ==
  { {}, {<<"ubuntu:latest">>}, {<<image_name>>}, {<<"localhost/", image_name>>},
    {<<"my-", image_name>>} }

StoredFiles == {[content |-> c, mtime |-> m] : c \in {<<1>>, <<2>>}, m \in {1, 2}}

LockStores == {EmptyMap} \cup {[p \in {dockerfile} |-> from_path(f)] : f \in StoredFiles}

\* no caller of the per-Dockerfile Lockfile, and no `containers run`
NoRet == [caller |-> "", op |-> "", path |-> "", res |-> "", val |-> ""]

ApiIdle ==
  /\ fs_lock = [kind |-> "missing", version |-> 0, dockerfiles |-> EmptyMap]
  /\ fs_dockerfiles = EmptyMap
  /\ lf = EmptyMap
  /\ ret = NoRet
  /\ phase = EmptyMap
  /\ target = EmptyMap

RunIdle ==
  /\ rpc = "idle"
  /\ run_arg = ""
  /\ run_cmd = <<>>
  /\ container_config = <<>>
  /\ container_lock = <<>>
  /\ rlog = <<>>
  /\ rexit = <<>>
  /\ rerr = ""

NoLockAccess == lock_reads = 0 /\ lock_writes = 0

NoResult == [op |-> "", res |-> "", val |-> "", msg |-> <<>>]

LibIdle ==
  /\ eng_s = <<>>
  /\ eng_r = NoResult
  /\ eng_text = <<>>
  /\ find_pc = "idle"
  /\ find_cwd = <<>>
  /\ find_home = <<>>
  /\ find_has = {}
  /\ find_dir = <<>>
  /\ find_visited = <<>>
  /\ find_ret = <<>>

BuildIdle ==
  /\ bpc = "idle"
  /\ config_file = [exists |-> FALSE, containers |-> EmptyMap]
  /\ lock_file = [exists |-> FALSE, containers |-> EmptyMap]
  /\ lock_file0 = [exists |-> FALSE, containers |-> EmptyMap]
  /\ build_arg = ""
  /\ config = EmptyMap
  /\ lockfile = EmptyMap
  /\ to_build = <<>>
  /\ files = EmptyMap
  /\ blog = <<>>
  /\ built = {}
  /\ bresult = "none"
  /\ berr = ""

Init ==
  /\ update_image \in BOOLEAN
  /\ dockerfile_exists \in BOOLEAN
  /\ container_engine \in Engines
  /\ nvidia_smi \in BOOLEAN
  /\ images \in ImageListings
  /\ image_gen = IF <<image_name>> \in images \/ <<"localhost/", image_name>> \in images
                 THEN "old" ELSE "none"
  /\ containers \in
       { [n \in ContainerNames |->
            IF n = container_name
            THEN (IF s = "absent" THEN Absent ELSE [state |-> s, from |-> "old"])
            ELSE (IF other THEN [state |-> "running", from |-> "old"] ELSE Absent)]
         : s \in {"absent", "stopped", "running"}, other \in BOOLEAN }
  /\ lock_store \in LockStores
  /\ dockerfile_file = [content |-> <<1>>, mtime |-> 2]
  /\ pc = "main"
  /\ image_found = "unset"
  /\ pre_exists = "unset"
  /\ lc_exists = "unset"
  /\ lc_running = "unset"
  /\ log = <<>>
  /\ result = "none"
  /\ err = ""
  /\ BuildIdle
  /\ ApiIdle
  /\ RunIdle
  /\ NoLockAccess
  /\ LibIdle

Next ==
  \/ build_phase
  \/ image_exists
  \/ decide_build
  \/ pre_container_exists
  \/ remove_container
  \/ build_image
  \/ container_exists
  \/ container_running
  \/ start_container
  \/ exec_container
  \/ create_and_run_container

Spec == Init /\ [][Next]_vars

\* the process is scheduled until main returns: every step of main that can
\* be taken is taken, and every blocking engine call comes back
SpecLive == Spec /\ WF_vars(Next)

\* the exit code of the process: main returns Result<(), Box<dyn Error>>
\* (line 36), so Ok(()) exits 0 and every Err exits 1
ExitCode == IF result = "Ok" THEN 0 ELSE 1

(***************************************************************************)
(* src/main.rs: `containers build` (build_containers, 77-135)              *)
(*                                                                         *)
(* An Option is a sequence of length 0 or 1.  A rendered text is the       *)
(* sequence of the strings pushed onto it.                                 *)
(***************************************************************************)
\* the base image of a definition that names none, and the source and
\* version of a dependency that names none
DefaultBaseImage == "ubuntu:latest"

DefaultSource == "apt"

\* the keys of the environment mappings, in lexicographic order
KeyOrder == <<"A", "B">>

EnvKeys == {KeyOrder[i] : i \in DOMAIN KeyOrder}

SortedKeys(env) == SelectSeq(KeyOrder, LAMBDA k : k \in DOMAIN env)

\* the orders in which a HashMap over the keys ks can be iterated
Orders(ks) ==
  {o \in [1..Cardinality(ks) -> ks] : \A i, j \in DOMAIN o : i # j => o[i] # o[j]}

IterationOrders == Orders(EnvKeys)

\* the keys of the mapping env as its iteration yields them, when a HashMap
\* over all keys is iterated in the given order
Iterate(env, order) == SelectSeq(order, LAMBDA k : k \in DOMAIN env)

\* a sequence of keys sorted lexicographically
Sorted(keys) == SelectSeq(KeyOrder, LAMBDA k : \E i \in DOMAIN keys : keys[i] = k)

RECURSIVE Concat(_)
Concat(strs) == IF strs = <<>> THEN "" ELSE Head(strs) \o Concat(Tail(strs))

\* the canonical serialization of a definition: mapping keys sorted,
\* sequences in declared order, an absent field as "-"
CanonBool(opt) == IF opt = <<>> THEN "-" ELSE IF opt[1] THEN "true" ELSE "false"

CanonStr(opt) == IF opt = <<>> THEN "-" ELSE "'" \o opt[1] \o "'"

CanonDep(d) ==
  "{" \o d.package \o "," \o CanonStr(d.version) \o "," \o CanonStr(d.source) \o "}"

CanonVolume(v) ==
  "{" \o v.source \o "," \o v.target \o "," \o CanonBool(v.read_only) \o "}"

CanonTmpfs(t) ==
  "{" \o t.target \o "," \o CanonBool(t.read_only) \o "," \o CanonStr(t.size) \o "}"

\* before CanonEnv, a faulty variant that serializes the mapping in its
\* iteration order
CanonEnv_unsorted(env, order) ==
  LET ks == Iterate(env, order)
  IN Concat([i \in DOMAIN ks |-> ks[i] \o "=" \o env[ks[i]] \o ";"])

CanonEnv(env, order) ==
  LET ks == Sorted(Iterate(env, order))
  IN Concat([i \in DOMAIN ks |-> ks[i] \o "=" \o env[ks[i]] \o ";"])

\* before Canon, a faulty variant that leaves the volumes out
Canon_without_volumes(def, order) ==
  "base=" \o CanonStr(def.base_image)
    \o "|deps=" \o Concat([i \in DOMAIN def.dependencies |-> CanonDep(def.dependencies[i])])
    \o "|env=" \o (IF def.environment = <<>> THEN "-" ELSE CanonEnv(def.environment[1], order))
    \o "|cmd=" \o (IF def.command = <<>> THEN "-"
                   ELSE Concat([i \in DOMAIN def.command[1] |-> def.command[1][i] \o ","]))
    \o "|tmpfs=" \o (IF def.tmpfs = <<>> THEN "-"
                     ELSE Concat([i \in DOMAIN def.tmpfs[1] |-> CanonTmpfs(def.tmpfs[1][i])]))
    \o "|remove=" \o CanonBool(def.remove)
    \o "|interactive=" \o CanonBool(def.interactive)
    \o "|tty=" \o CanonBool(def.tty)
    \o "|gpu=" \o CanonBool(def.gpu)

Canon(def, order) ==
  "base=" \o CanonStr(def.base_image)
    \o "|deps=" \o Concat([i \in DOMAIN def.dependencies |-> CanonDep(def.dependencies[i])])
    \o "|env=" \o (IF def.environment = <<>> THEN "-" ELSE CanonEnv(def.environment[1], order))
    \o "|cmd=" \o (IF def.command = <<>> THEN "-"
                   ELSE Concat([i \in DOMAIN def.command[1] |-> def.command[1][i] \o ","]))
    \o "|volumes=" \o (IF def.volumes = <<>> THEN "-"
                       ELSE Concat([i \in DOMAIN def.volumes[1] |-> CanonVolume(def.volumes[1][i])]))
    \o "|tmpfs=" \o (IF def.tmpfs = <<>> THEN "-"
                     ELSE Concat([i \in DOMAIN def.tmpfs[1] |-> CanonTmpfs(def.tmpfs[1][i])]))
    \o "|remove=" \o CanonBool(def.remove)
    \o "|interactive=" \o CanonBool(def.interactive)
    \o "|tty=" \o CanonBool(def.tty)
    \o "|gpu=" \o CanonBool(def.gpu)

\* IdentityHasher.hash: a digest of the canonical serialization, taken as
\* collision free; order is the iteration order of the HashMaps of the run
Hash(def, order) == "sha256(" \o Canon(def, order) \o ")"

LockDep(d) ==
  [package |-> d.package,
   version |-> IF d.version = <<>> THEN "latest" ELSE d.version[1],
   source |-> IF d.source = <<>> THEN DefaultSource ELSE d.source[1]]

ContainerLock(name, def, order) ==
  [image_hash |-> "containers-" \o name \o ":" \o Hash(def, order),
   content_hash |-> Hash(def, order),
   base_image |-> IF def.base_image = <<>> THEN DefaultBaseImage ELSE def.base_image[1],
   dependencies |-> [i \in DOMAIN def.dependencies |-> LockDep(def.dependencies[i])]]

\* Lockfile::generate_from_config, called at line 81
generate_from_config(cs, order) == [n \in DOMAIN cs |-> ContainerLock(n, cs[n], order)]

\* LockfileStore.changed: no record for the name, or another hash
changed(store, name, current_hash) ==
  name \notin DOMAIN store \/ store[name].content_hash # current_hash

\* DockerfileGenerator::generate (src/dockerfile.rs 10-88); env_order is the
\* order in which the HashMap of the environment is iterated.  Before
\* DepStep, a faulty variant that renders nothing for a source it does not
\* know.
DepStep_skips_unknown(dep) ==
  IF dep.source = "apt"
  THEN << "RUN apt-get update && apt-get install -y "
            \o (IF dep.version # "latest" THEN dep.package \o "=" \o dep.version
                ELSE dep.package)
            \o " && rm -rf /var/lib/apt/lists/*\n" >>
  ELSE IF dep.source = "pip"
  THEN << "RUN pip install "
            \o (IF dep.version # "latest" THEN dep.package \o "==" \o dep.version
                ELSE dep.package),
          "\n" >>
  ELSE <<>>

DepStep(dep) ==
  IF dep.source = "apt"
  THEN << "RUN apt-get update && apt-get install -y "
            \o (IF dep.version # "latest" THEN dep.package \o "=" \o dep.version
                ELSE dep.package)
            \o " && rm -rf /var/lib/apt/lists/*\n" >>
  ELSE IF dep.source = "pip"
  THEN << "RUN pip install "
            \o (IF dep.version # "latest" THEN dep.package \o "==" \o dep.version
                ELSE dep.package),
          "\n" >>
  ELSE << "# TODO: Install " \o dep.package \o " from " \o dep.source \o "\n" >>

RECURSIVE DepSteps(_)
DepSteps(deps) == IF deps = <<>> THEN <<>> ELSE DepStep(Head(deps)) \o DepSteps(Tail(deps))

RECURSIVE Join(_, _)
Join(strs, sep) ==
  IF strs = <<>> THEN ""
  ELSE IF Len(strs) = 1 THEN strs[1]
  ELSE strs[1] \o sep \o Join(Tail(strs), sep)

\* before generate, a faulty variant that declares the environment before it
\* installs the dependencies
generate_env_first(cfg, lock, env_order) ==
  << "FROM " \o lock.base_image \o "\n\n",
     "# Install system dependencies\n",
     "RUN apt-get update && apt-get install -y \\\n",
     "    sudo \\\n",
     "    && rm -rf /var/lib/apt/lists/*\n\n" >>
  \o (IF cfg.environment # <<>>
      THEN <<"# Set environment variables\n">>
           \o [i \in DOMAIN env_order |->
                 "ENV " \o env_order[i] \o "=" \o cfg.environment[1][env_order[i]] \o "\n"]
           \o <<"\n">>
      ELSE <<>>)
  \o (IF lock.dependencies # <<>>
      THEN <<"# Install dependencies\n">> \o DepSteps(lock.dependencies) \o <<"\n">>
      ELSE <<>>)
  \o << "# Create user\n",
        "ARG UID=1000\n",
        "ARG GID=1000\n",
        "RUN groupadd -g $GID code && \\\n",
        "    useradd -m -u $UID -g $GID -s /bin/bash code && \\\n",
        "    usermod -aG sudo code && \\\n",
        "    echo 'code ALL=(ALL) NOPASSWD: ALL' >> /etc/sudoers\n\n",
        "# Copy and set entrypoint\n",
        "COPY entrypoint.sh /entrypoint.sh\n",
        "RUN chmod +x /entrypoint.sh\n\n",
        "USER code\n",
        "WORKDIR /home/code/work\n\n",
        "ENTRYPOINT [\"/entrypoint.sh\"]\n" >>
  \o (IF cfg.command # <<>>
      THEN << "CMD ["
                \o Join([i \in DOMAIN cfg.command[1] |-> "\"" \o cfg.command[1][i] \o "\""], ", ")
                \o "]\n" >>
      ELSE <<>>)

generate(cfg, lock, env_order) ==
  << "FROM " \o lock.base_image \o "\n\n",
     "# Install system dependencies\n",
     "RUN apt-get update && apt-get install -y \\\n",
     "    sudo \\\n",
     "    && rm -rf /var/lib/apt/lists/*\n\n" >>
  \o (IF lock.dependencies # <<>>
      THEN <<"# Install dependencies\n">> \o DepSteps(lock.dependencies) \o <<"\n">>
      ELSE <<>>)
  \o (IF cfg.environment # <<>>
      THEN <<"# Set environment variables\n">>
           \o [i \in DOMAIN env_order |->
                 "ENV " \o env_order[i] \o "=" \o cfg.environment[1][env_order[i]] \o "\n"]
           \o <<"\n">>
      ELSE <<>>)
  \o << "# Create user\n",
        "ARG UID=1000\n",
        "ARG GID=1000\n",
        "RUN groupadd -g $GID code && \\\n",
        "    useradd -m -u $UID -g $GID -s /bin/bash code && \\\n",
        "    usermod -aG sudo code && \\\n",
        "    echo 'code ALL=(ALL) NOPASSWD: ALL' >> /etc/sudoers\n\n",
        "# Copy and set entrypoint\n",
        "COPY entrypoint.sh /entrypoint.sh\n",
        "RUN chmod +x /entrypoint.sh\n\n",
        "USER code\n",
        "WORKDIR /home/code/work\n\n",
        "ENTRYPOINT [\"/entrypoint.sh\"]\n" >>
  \o (IF cfg.command # <<>>
      THEN << "CMD ["
                \o Join([i \in DOMAIN cfg.command[1] |-> "\"" \o cfg.command[1][i] \o "\""], ", ")
                \o "]\n" >>
      ELSE <<>>)

\* DockerfileGenerator::generate_entrypoint (src/dockerfile.rs 96-115)
generate_entrypoint ==
  << "#!/bin/bash\nset -e\n\n# Update UID/GID if needed\n"
       \o "if [ ! -z \"$UID\" ] && [ \"$UID\" != \"$(id -u)\" ]; then\n"
       \o "    sudo usermod -u $UID code\nfi\n\n"
       \o "if [ ! -z \"$GID\" ] && [ \"$GID\" != \"$(id -g)\" ]; then\n"
       \o "    sudo groupmod -g $GID code\n    sudo usermod -g $GID code\nfi\n\n"
       \o "# Fix ownership of home directory\nsudo chown -R code:code /home/code\n\n"
       \o "exec \"$@\"\n" >>

docker_build_argv(tag, path, dir) == <<"build", "-t", tag, "-f", path, dir>>

BFail(msg) == bpc' = "error" /\ bresult' = "Err" /\ berr' = msg

BGoto(l) == bpc' = l /\ UNCHANGED <<bresult, berr>>

diskVars == <<config_file, lock_file0, build_arg>>

\* line 79: ContainersToml::from_file(config_path)?
from_file ==
  /\ bpc = "from_file"
  /\ IF config_file.exists
     THEN config' = config_file.containers /\ BGoto("generate_from_config")
     ELSE BFail("config") /\ UNCHANGED config
  /\ UNCHANGED <<diskVars, lock_file, lockfile, to_build, files, blog, built, mainVars, extVars>>

\* line 81: let lockfile = Lockfile::generate_from_config(&config.containers)?
generate_lockfile ==
  /\ bpc = "generate_from_config"
  /\ \E order \in IterationOrders : lockfile' = generate_from_config(config, order)
  /\ BGoto("save")
  /\ UNCHANGED <<diskVars, lock_file, config, to_build, files, blog, built, mainVars, extVars>>

\* line 82: lockfile.save("containers.lock")?  A failed write leaves the
\* file as it was.  Before it, a faulty variant that reports a write it did
\* not make.
save_lockfile_skips_write(ok) ==
  IF ok
  THEN /\ UNCHANGED lock_file
       /\ BGoto("select")
  ELSE /\ UNCHANGED lock_file
       /\ BFail("io")

save_lockfile(ok) ==
  IF ok
  THEN /\ lock_file' = [exists |-> TRUE, containers |-> lockfile]
       /\ BGoto("select")
  ELSE /\ UNCHANGED lock_file
       /\ BFail("io")

save ==
  /\ bpc = "save"
  /\ \E ok \in BOOLEAN : save_lockfile(ok)
  /\ lock_writes' = lock_writes + 1
  /\ UNCHANGED <<diskVars, config, lockfile, to_build, files, blog, built, mainVars,
                 apiVars, raceVars, runVars, lock_reads, libVars>>

\* lines 84-88: the named container, or every key of the HashMap
select ==
  /\ bpc = "select"
  /\ IF build_arg # ""
     THEN to_build' = <<build_arg>>
     ELSE to_build' \in Orders(DOMAIN config)
  /\ BGoto("loop")
  /\ UNCHANGED <<diskVars, lock_file, config, lockfile, files, blog, built, mainVars, extVars>>

Put(f, k, v) == [x \in DOMAIN f \cup {k} |-> IF x = k THEN v ELSE f[x]]

\* lines 90-113: one pass of the loop up to the build command
loop ==
  /\ bpc = "loop"
  /\ IF to_build = <<>>
     THEN bpc' = "done" /\ bresult' = "Ok" /\ UNCHANGED <<berr, files>>
     ELSE LET container_name_ == Head(to_build) IN
          IF container_name_ \notin DOMAIN config
          THEN BFail("not found in config") /\ UNCHANGED files
          ELSE IF container_name_ \notin DOMAIN lockfile
          THEN BFail("not found in lockfile") /\ UNCHANGED files
          ELSE /\ \E env_order \in
                     Orders(IF config[container_name_].environment = <<>> THEN {}
                            ELSE DOMAIN config[container_name_].environment[1]) :
                    files' = Put(Put(files,
                                     "dockerfiles/Dockerfile." \o container_name_,
                                     generate(config[container_name_],
                                              lockfile[container_name_], env_order)),
                                 "dockerfiles/entrypoint.sh", generate_entrypoint)
               /\ BGoto("docker_build")
  /\ UNCHANGED <<diskVars, lock_file, config, lockfile, to_build, blog, built, mainVars, extVars>>

BPending == Len(blog) > 0 /\ blog[Len(blog)].st = "pending"

\* what build_containers makes of the build's outcome (125-129)
docker_build_result(o) ==
  IF o.st = "ioerr" THEN "io"
  ELSE IF o.code # 0 THEN "Failed to build container" ELSE "Ok"

\* lines 131-132: after a successful build the loop goes on with the next
\* container; before it, a faulty variant that saves the lockfile again
after_docker_build_saves == "save"

after_docker_build == "loop"

\* lines 115-131: docker build -t <image_hash> -f <path> dockerfiles
docker_build ==
  /\ bpc = "docker_build"
  /\ LET container_name_ == Head(to_build) IN
     \/ /\ ~BPending
        /\ blog' = Append(blog,
             [argv |-> docker_build_argv(lockfile[container_name_].image_hash,
                                         "dockerfiles/Dockerfile." \o container_name_,
                                         "dockerfiles"),
              st |-> "pending", code |-> 0])
        /\ UNCHANGED <<bpc, bresult, berr, to_build, built>>
     \/ /\ BPending
        /\ \E o \in Outcomes :
             /\ blog' = [blog EXCEPT ![Len(blog)].st = o.st, ![Len(blog)].code = o.code]
             /\ built' = IF o.st = "exited" /\ o.code = 0
                         THEN built \cup {lockfile[container_name_].image_hash} ELSE built
             /\ IF docker_build_result(o) = "Ok"
                THEN to_build' = Tail(to_build) /\ BGoto(after_docker_build)
                ELSE BFail(docker_build_result(o)) /\ UNCHANGED to_build
  /\ UNCHANGED <<diskVars, lock_file, config, lockfile, files, mainVars, extVars>>

(***************************************************************************)
(* Initial states of an invocation of `containers build`                   *)
(***************************************************************************)
DefA ==
  [base_image |-> <<"ubuntu:latest">>, dependencies |-> <<>>, environment |-> <<>>,
   command |-> <<>>, remove |-> <<>>, interactive |-> <<>>, tty |-> <<>>, gpu |-> <<>>,
   volumes |-> <<>>, tmpfs |-> <<>>]

DefB ==
  [base_image |-> <<>>,
   dependencies |->
     << [package |-> "curl", version |-> <<>>, source |-> <<"apt">>],
        [package |-> "numpy", version |-> <<"1.26">>, source |-> <<"pip">>] >>,
   environment |-> << [k \in {"A", "B"} |-> IF k = "A" THEN "1" ELSE "2"] >>,
   command |-> << <<"bash", "-l">> >>,
   remove |-> <<FALSE>>, interactive |-> <<TRUE>>, tty |-> <<FALSE>>, gpu |-> <<TRUE>>,
   volumes |-> << << [source |-> "/data", target |-> "/mnt/data", read_only |-> <<TRUE>>],
                     [source |-> "/src", target |-> "/mnt/src", read_only |-> <<>>] >> >>,
   tmpfs |-> << << [target |-> "/tmp/a", read_only |-> <<TRUE>>, size |-> <<"1m">>],
                   [target |-> "/tmp/b", read_only |-> <<>>, size |-> <<>>] >> >>]

DefC ==
  [base_image |-> <<"debian:12">>,
   dependencies |->
     << [package |-> "ripgrep", version |-> <<>>, source |-> <<"cargo">>],
        [package |-> "git", version |-> <<>>, source |-> <<>>] >>,
   environment |-> << [k \in {"A"} |-> "1"] >>,
   command |-> <<>>,
   remove |-> <<TRUE>>, interactive |-> <<FALSE>>, tty |-> <<TRUE>>, gpu |-> <<FALSE>>,
   volumes |-> << <<>> >>,
   tmpfs |-> << << [target |-> "/tmp/c", read_only |-> <<>>, size |-> <<"2m">>] >> >>]

Defs == {DefA, DefB, DefC}

ConfigNames == {"default", "extra"}

ConfigMaps == UNION {[ns -> Defs] : ns \in SUBSET ConfigNames}

MainIdle ==
  /\ update_image = FALSE
  /\ dockerfile_exists = FALSE
  /\ container_engine = "podman"
  /\ nvidia_smi = FALSE
  /\ images = {}
  /\ image_gen = "none"
  /\ containers = [n \in ContainerNames |-> Absent]
  /\ lock_store = EmptyMap
  /\ dockerfile_file = [content |-> <<1>>, mtime |-> 2]
  /\ pc = "idle"
  /\ image_found = "unset"
  /\ pre_exists = "unset"
  /\ lc_exists = "unset"
  /\ lc_running = "unset"
  /\ log = <<>>
  /\ result = "none"
  /\ err = ""

InitBuild ==
  /\ MainIdle
  /\ ApiIdle
  /\ RunIdle
  /\ NoLockAccess
  /\ LibIdle
  /\ bpc = "from_file"
  /\ config_file \in
       {[exists |-> FALSE, containers |-> EmptyMap]}
         \cup {[exists |-> TRUE, containers |-> c] : c \in ConfigMaps}
  /\ lock_file \in
       {[exists |-> FALSE, containers |-> EmptyMap]}
         \cup {[exists |-> TRUE, containers |-> generate_from_config(c, order)] :
                 c \in ConfigMaps, order \in IterationOrders}
  /\ lock_file0 = lock_file
  /\ build_arg \in {"", "default", "extra", "other"}
  /\ config = EmptyMap
  /\ lockfile = EmptyMap
  /\ to_build = <<>>
  /\ files = EmptyMap
  /\ blog = <<>>
  /\ built = {}
  /\ bresult = "none"
  /\ berr = ""

NextBuild ==
  \/ from_file
  \/ generate_lockfile
  \/ save
  \/ select
  \/ loop
  \/ docker_build

SpecBuild == InitBuild /\ [][NextBuild]_vars

(***************************************************************************)
(* `containers build` of one container whose definition was edited since   *)
(* the lockfile on disk was written                                        *)
(***************************************************************************)
\* DefB and the definitions that differ from it in exactly one field
Edits ==
  { DefB,
    [DefB EXCEPT !.base_image = <<"debian:12">>],
    [DefB EXCEPT !.dependencies = Append(@, [package |-> "git", version |-> <<>>, source |-> <<>>])],
    [DefB EXCEPT !.dependencies = <<@[2], @[1]>>],
    [DefB EXCEPT !.environment = << [k \in {"A", "B"} |-> IF k = "A" THEN "1" ELSE "3"] >>],
    [DefB EXCEPT !.environment = << [k \in {"A"} |-> "1"] >>],
    [DefB EXCEPT !.volumes = << <<@[1][1]>> >>],
    [DefB EXCEPT !.volumes = << <<@[1][1], [@[1][2] EXCEPT !.read_only = <<TRUE>>]>> >>] }

InitEdited ==
  /\ MainIdle
  /\ ApiIdle
  /\ RunIdle
  /\ NoLockAccess
  /\ LibIdle
  /\ bpc = "from_file"
  /\ config_file \in {[exists |-> TRUE, containers |-> [n \in {"default"} |-> d]] : d \in Edits}
  /\ lock_file \in
       {[exists |-> TRUE, containers |-> generate_from_config([n \in {"default"} |-> d], order)] :
          d \in Edits, order \in IterationOrders}
  /\ lock_file0 = lock_file
  /\ build_arg \in {"", "default"}
  /\ config = EmptyMap
  /\ lockfile = EmptyMap
  /\ to_build = <<>>
  /\ files = EmptyMap
  /\ blog = <<>>
  /\ built = {}
  /\ bresult = "none"
  /\ berr = ""

SpecEdited == InitEdited /\ [][NextBuild]_vars

(***************************************************************************)
(* `containers build` run again on the containers.toml and the lockfile of *)
(* an earlier run, whose artifacts are still in dockerfiles/               *)
(***************************************************************************)
EnvOrders(def) == Orders(IF def.environment = <<>> THEN {} ELSE DOMAIN def.environment[1])

\* lines 102-113 for every container of cs, ord[n] the order in which the
\* environment of container n was iterated
ArtifactsOf(cs, lk, ord) ==
  [path \in {"dockerfiles/Dockerfile." \o n : n \in DOMAIN cs} \cup {"dockerfiles/entrypoint.sh"} |->
     IF path = "dockerfiles/entrypoint.sh" THEN generate_entrypoint
     ELSE LET n == CHOOSE n \in DOMAIN cs : path = "dockerfiles/Dockerfile." \o n
          IN generate(cs[n], lk[n], ord[n])]

PriorArtifacts(cs) ==
  {ArtifactsOf(cs, generate_from_config(cs, KeyOrder), ord) :
     ord \in {o \in [DOMAIN cs -> UNION {Orders(ks) : ks \in SUBSET EnvKeys}] :
                \A n \in DOMAIN cs : o[n] \in EnvOrders(cs[n])}}

InitRerun ==
  /\ MainIdle
  /\ ApiIdle
  /\ RunIdle
  /\ NoLockAccess
  /\ LibIdle
  /\ bpc = "from_file"
  /\ config_file \in {[exists |-> TRUE, containers |-> c] : c \in ConfigMaps \ {EmptyMap}}
  /\ lock_file = [exists |-> TRUE,
                  containers |-> generate_from_config(config_file.containers, KeyOrder)]
  /\ lock_file0 = lock_file
  /\ build_arg \in {"", "default", "extra"}
  /\ config = EmptyMap
  /\ lockfile = EmptyMap
  /\ to_build = <<>>
  /\ files \in PriorArtifacts(config_file.containers)
  /\ blog = <<>>
  /\ built = {}
  /\ bresult = "none"
  /\ berr = ""

SpecRerun == InitRerun /\ [][NextBuild]_vars

(***************************************************************************)
(* src/main.rs: `containers init` (init_config, 54-75)                     *)
(***************************************************************************)
\* lines 63-66: ContainerConfig::default() named "default", with the base
\* image and the gpu flag set
default_config ==
  [base_image |-> <<"ubuntu:latest">>, dependencies |-> <<>>, environment |-> <<>>,
   command |-> <<>>, remove |-> <<>>, interactive |-> <<>>, tty |-> <<>>, gpu |-> <<TRUE>>,
   volumes |-> <<>>, tmpfs |-> <<>>]

\* init_config on the containers.toml it finds, ok the outcome of the write
\* of line 71: [res, msg, file].  Before it, a faulty variant that does not
\* look for an existing file.
init_config_overwrites(file, ok) ==
  IF ok
  THEN [res |-> "Ok", msg |-> "",
        file |-> [exists |-> TRUE, containers |-> [n \in {"default"} |-> default_config]]]
  ELSE [res |-> "Err", msg |-> "io", file |-> file]

init_config_result(file, ok) ==
  IF file.exists
  THEN [res |-> "Err", msg |-> "containers.toml already exists", file |-> file]
  ELSE IF ok
  THEN [res |-> "Ok", msg |-> "",
        file |-> [exists |-> TRUE, containers |-> [n \in {"default"} |-> default_config]]]
  ELSE [res |-> "Err", msg |-> "io", file |-> file]

init_config ==
  /\ bpc = "init_config"
  /\ \E ok \in BOOLEAN :
       LET r == init_config_result(config_file, ok) IN
       /\ config_file' = r.file
       /\ IF r.res = "Ok"
          THEN bpc' = "done" /\ bresult' = "Ok" /\ UNCHANGED berr
          ELSE BFail(r.msg)
  /\ UNCHANGED <<lock_file, lock_file0, build_arg, config, lockfile, to_build, files, blog,
                 built, mainVars, extVars>>

InitInit ==
  /\ MainIdle
  /\ ApiIdle
  /\ RunIdle
  /\ NoLockAccess
  /\ LibIdle
  /\ bpc = "init_config"
  /\ config_file \in
       {[exists |-> FALSE, containers |-> EmptyMap]}
         \cup {[exists |-> TRUE, containers |-> c] : c \in ConfigMaps}
  /\ lock_file \in
       {[exists |-> FALSE, containers |-> EmptyMap]}
         \cup {[exists |-> TRUE, containers |-> generate_from_config(c, KeyOrder)] : c \in ConfigMaps}
  /\ lock_file0 = lock_file
  /\ build_arg = ""
  /\ config = EmptyMap
  /\ lockfile = EmptyMap
  /\ to_build = <<>>
  /\ files = EmptyMap
  /\ blog = <<>>
  /\ built = {}
  /\ bresult = "none"
  /\ berr = ""

NextInit == init_config

SpecInit == InitInit /\ [][NextInit]_vars

(***************************************************************************)
(* src/main.rs: `containers run` (run_container, 137-259)                  *)
(***************************************************************************)
uid == "1000"

gid == "1000"

UnwrapOr(opt, d) == IF opt = <<>> THEN d ELSE opt[1]

NoLockfileFound == "No lockfile found. Run 'containers build' first"

\* a blocking wait() also ends when the child is killed by a signal
RunOutcomes == Outcomes \cup {[st |-> "signaled", code |-> 0]}

\* lines 186-208: the -v arguments
volume_args(cfg, dir, home) ==
  IF cfg.volumes # <<>>
  THEN LET vs == cfg.volumes[1] IN
       [i \in 1..(2 * Len(vs)) |->
          IF i % 2 = 1 THEN "-v"
          ELSE LET v == vs[i \div 2] IN
               IF UnwrapOr(v.read_only, FALSE)
               THEN v.source \o ":" \o v.target \o ":ro"
               ELSE v.source \o ":" \o v.target]
  ELSE << "-v", dir \o ":/home/code/work",
          "-v", home \o "/.claude:/home/code/.claude",
          "-v", home \o "/.claude.json:/home/code/.claude.json" >>

\* lines 212-226: one --tmpfs value
tmpfs_str(t) ==
  LET opts == (IF UnwrapOr(t.read_only, FALSE) THEN <<"ro">> ELSE <<>>)
                \o (IF t.size # <<>> THEN <<"size=" \o t.size[1]>> ELSE <<>>)
  IN IF opts # <<>> THEN t.target \o ":" \o Join(opts, ",") ELSE t.target

\* lines 210-232: the --tmpfs arguments
tmpfs_args(cfg) ==
  IF cfg.tmpfs # <<>>
  THEN LET ts == cfg.tmpfs[1] IN
       [i \in 1..(2 * Len(ts)) |-> IF i % 2 = 1 THEN "--tmpfs" ELSE tmpfs_str(ts[i \div 2])]
  ELSE <<"--tmpfs", "/home/code/work/build:ro,size=1m">>

\* lines 180-184: the -e arguments, in the order the HashMap is iterated
env_args(cfg, env_order) ==
  IF cfg.environment # <<>>
  THEN [i \in 1..(2 * Len(env_order)) |->
          IF i % 2 = 1 THEN "-e"
          ELSE env_order[i \div 2] \o "=" \o cfg.environment[1][env_order[i \div 2]]]
  ELSE <<>>

\* lines 240-246
final_command(command, cfg) ==
  IF command # <<>> THEN command
  ELSE IF cfg.command # <<>> THEN cfg.command[1]
  ELSE <<>>

\* lines 162-250: the docker command line
docker_run_argv(cfg, lock, command, dir, home, env_order) ==
  <<"run">>
    \o (IF UnwrapOr(cfg.remove, TRUE) THEN <<"--rm">> ELSE <<>>)
    \o (IF UnwrapOr(cfg.interactive, TRUE) THEN <<"-i">> ELSE <<>>)
    \o (IF UnwrapOr(cfg.tty, TRUE) THEN <<"-t">> ELSE <<>>)
    \o <<"-e", "UID=" \o uid, "-e", "GID=" \o gid>>
    \o env_args(cfg, env_order)
    \o volume_args(cfg, dir, home)
    \o tmpfs_args(cfg)
    \o (IF UnwrapOr(cfg.gpu, FALSE) THEN <<"--gpus", "all">> ELSE <<>>)
    \o <<lock.image_hash>>
    \o final_command(command, cfg)

\* lines 146-150: the lockfile is read only when it exists; [res, msg]
load_lockfile_result(file, ok) ==
  IF ~file.exists THEN [res |-> "Err", msg |-> NoLockfileFound]
  ELSE IF ~ok THEN [res |-> "Err", msg |-> "lockfile"]
  ELSE [res |-> "Ok", msg |-> ""]

\* lines 252-258: the exit code after wait(): std::process::exit with the
\* child's code (1 when it has none), 0 after a successful session
run_exit_code(o) ==
  IF o.st = "exited" THEN o.code ELSE 1

\* an Err returned by run_container leaves main, and the process exits 1
RFail(msg) == rpc' = "error" /\ rerr' = msg /\ rexit' = <<1>>

RGoto(l) == rpc' = l /\ UNCHANGED <<rerr, rexit>>

runRest ==
  <<mainVars, apiVars, raceVars, libVars, bpc, config_file, lock_file, lock_file0, build_arg, to_build, files,
    blog, built, bresult, berr, run_arg, run_cmd, lock_writes>>

\* line 139: ContainersToml::from_file(config_path)?
run_from_file ==
  /\ rpc = "from_file"
  /\ IF config_file.exists
     THEN config' = config_file.containers /\ RGoto("get_container")
     ELSE RFail("config") /\ UNCHANGED config
  /\ UNCHANGED <<runRest, lockfile, container_config, container_lock, rlog, lock_reads>>

\* lines 141-143
get_container ==
  /\ rpc = "get_container"
  /\ IF run_arg \in DOMAIN config
     THEN container_config' = <<config[run_arg]>> /\ RGoto("load_lockfile")
     ELSE RFail("Container not found") /\ UNCHANGED container_config
  /\ UNCHANGED <<runRest, config, lockfile, container_lock, rlog, lock_reads>>

\* lines 145-150
load_lockfile ==
  /\ rpc = "load_lockfile"
  /\ \E ok \in BOOLEAN :
       LET r == load_lockfile_result(lock_file, ok) IN
       IF r.res = "Ok"
       THEN lockfile' = lock_file.containers /\ RGoto("get_lock")
       ELSE RFail(r.msg) /\ UNCHANGED lockfile
  /\ lock_reads' = IF lock_file.exists THEN lock_reads + 1 ELSE lock_reads
  /\ UNCHANGED <<runRest, config, container_config, container_lock, rlog>>

\* lines 152-155
get_lock ==
  /\ rpc = "get_lock"
  /\ IF run_arg \in DOMAIN lockfile
     THEN container_lock' = <<lockfile[run_arg]>> /\ RGoto("home_dir")
     ELSE RFail("Container not found in lockfile") /\ UNCHANGED container_lock
  /\ UNCHANGED <<runRest, config, lockfile, container_config, rlog, lock_reads>>

\* lines 157-160: env::current_dir() is taken to succeed; dirs::home_dir()
\* may find no home directory
home_dir ==
  /\ rpc = "home_dir"
  /\ \E found \in BOOLEAN :
       IF found THEN RGoto("spawn") ELSE RFail("Failed to get home directory")
  /\ UNCHANGED <<runRest, config, lockfile, container_config, container_lock, rlog, lock_reads>>

RPending == Len(rlog) > 0 /\ rlog[Len(rlog)].st = "pending"

\* lines 162-258: docker run .. ; spawn()?.wait()?
spawn_wait ==
  /\ rpc = "spawn"
  /\ \/ /\ ~RPending
        /\ \E env_order \in
               Orders(IF container_config[1].environment = <<>> THEN {}
                      ELSE DOMAIN container_config[1].environment[1]) :
             rlog' = Append(rlog,
               [argv |-> docker_run_argv(container_config[1], container_lock[1], run_cmd,
                                         current_dir, "/home/u", env_order),
                st |-> "pending", code |-> 0])
        /\ UNCHANGED <<rpc, rerr, rexit>>
     \/ /\ RPending
        /\ \E o \in RunOutcomes :
             /\ rlog' = [rlog EXCEPT ![Len(rlog)].st = o.st, ![Len(rlog)].code = o.code]
             /\ IF o.st = "ioerr"
                THEN RFail("io")
                ELSE /\ rexit' = <<run_exit_code(o)>>
                     /\ rpc' = IF o.st = "exited" /\ o.code = 0 THEN "done" ELSE "exit"
                     /\ UNCHANGED rerr
  /\ UNCHANGED <<runRest, config, lockfile, container_config, container_lock, lock_reads>>

InitRun ==
  /\ MainIdle
  /\ ApiIdle
  /\ NoLockAccess
  /\ LibIdle
  /\ bpc = "idle"
  /\ config_file \in
       {[exists |-> FALSE, containers |-> EmptyMap]}
         \cup {[exists |-> TRUE, containers |-> c] : c \in ConfigMaps}
  /\ lock_file \in
       {[exists |-> FALSE, containers |-> EmptyMap]}
         \cup {[exists |-> TRUE, containers |-> generate_from_config(c, order)] :
                 c \in ConfigMaps, order \in IterationOrders}
  /\ lock_file0 = lock_file
  /\ build_arg = ""
  /\ config = EmptyMap
  /\ lockfile = EmptyMap
  /\ to_build = <<>>
  /\ files = EmptyMap
  /\ blog = <<>>
  /\ built = {}
  /\ bresult = "none"
  /\ berr = ""
  /\ rpc = "from_file"
  /\ run_arg \in {"default", "extra", "other"}
  /\ run_cmd \in {<<>>, <<"ls", "-l">>}
  /\ container_config = <<>>
  /\ container_lock = <<>>
  /\ rlog = <<>>
  /\ rexit = <<>>
  /\ rerr = ""

NextRun ==
  \/ run_from_file
  \/ get_container
  \/ load_lockfile
  \/ get_lock
  \/ home_dir
  \/ spawn_wait

SpecRun == InitRun /\ [][NextRun]_vars

(***************************************************************************)
(* src/lockfile.rs: callers of the per-Dockerfile Lockfile                 *)
(*                                                                         *)
(* Each caller holds at most one Lockfile value and calls load_or_create,  *)
(* has_dockerfile_changed, update_dockerfile_info and save on Dockerfiles  *)
(* of one directory, all of which share the lockfile of that directory.    *)
(***************************************************************************)
VERSION == 1

LOCKFILE_NAME == ".containers.lock"

Callers == {"p", "q"}

OtherDockerfile == "/w/gpu.Dockerfile"

DockerfilePaths == {dockerfile, OtherDockerfile}

\* Path::parent of the paths of the model, as an Option: the empty path has
\* no parent
Parent(path) == IF path = "" THEN <<>> ELSE <<current_dir>>

\* Lockfile::new (47-52)
new == [version |-> VERSION, dockerfiles |-> EmptyMap]

\* Lockfile::get_lockfile_path (150-156), as an Option
get_lockfile_path(path) ==
  IF Parent(path) = <<>> THEN <<>> ELSE <<Parent(path)[1] \o "/" \o LOCKFILE_NAME>>

\* Lockfile::load_or_create (66-81): [res, msg, val], val the Lockfile as an
\* Option.  Before it, a faulty variant that takes an unparseable file for
\* an absent one.
load_or_create_discards_corrupt(path, file) ==
  IF get_lockfile_path(path) = <<>>
  THEN [res |-> "Err", msg |-> "Dockerfile has no parent directory", val |-> <<>>]
  ELSE IF file.kind = "missing" \/ file.kind = "corrupt"
  THEN [res |-> "Ok", msg |-> "", val |-> <<new>>]
  ELSE IF file.kind = "unreadable"
  THEN [res |-> "Err", msg |-> "Failed to read lockfile", val |-> <<>>]
  ELSE [res |-> "Ok", msg |-> "",
        val |-> << [version |-> file.version, dockerfiles |-> file.dockerfiles] >>]

load_or_create_result(path, file) ==
  IF get_lockfile_path(path) = <<>>
  THEN [res |-> "Err", msg |-> "Dockerfile has no parent directory", val |-> <<>>]
  ELSE IF file.kind = "missing"
  THEN [res |-> "Ok", msg |-> "", val |-> <<new>>]
  ELSE IF file.kind = "unreadable"
  THEN [res |-> "Err", msg |-> "Failed to read lockfile", val |-> <<>>]
  ELSE IF file.kind = "corrupt"
  THEN [res |-> "Err", msg |-> "Failed to parse lockfile", val |-> <<>>]
  ELSE [res |-> "Ok", msg |-> "",
        val |-> << [version |-> file.version, dockerfiles |-> file.dockerfiles] >>]

\* Lockfile::update_dockerfile_info (112-116) of a readable file, after a
\* faulty variant that merges the new hash into an existing record
update_dockerfile_info_merges(lock, path, file) ==
  [lock EXCEPT !.dockerfiles =
     Put(lock.dockerfiles, path,
         IF path \in DOMAIN lock.dockerfiles
         THEN [lock.dockerfiles[path] EXCEPT !.content_hash = from_path(file).content_hash]
         ELSE from_path(file))]

update_dockerfile_info(lock, path, file) ==
  [lock EXCEPT !.dockerfiles = Put(lock.dockerfiles, path, from_path(file))]

Returned(p, op, path, res, val) ==
  ret' = [caller |-> p, op |-> op, path |-> path, res |-> res, val |-> val]

apiRest == <<mainVars, buildVars, runVars, lock_reads, lock_writes, libVars>>

load_or_create(p, path) ==
  LET r == load_or_create_result(path, fs_lock) IN
  /\ lf' = IF r.res = "Ok" THEN Put(lf, p, r.val) ELSE lf
  /\ Returned(p, "load_or_create", path, r.res, r.msg)
  /\ UNCHANGED <<fs_lock, fs_dockerfiles, apiRest>>

call_has_dockerfile_changed(p, path) ==
  /\ p \in DOMAIN lf /\ lf[p] # <<>>
  /\ IF fs_dockerfiles[path].readable
     THEN Returned(p, "has_dockerfile_changed", path, "Ok",
                   Tri(has_dockerfile_changed(lf[p][1].dockerfiles, path, fs_dockerfiles[path])))
     ELSE Returned(p, "has_dockerfile_changed", path, "Err", "Failed to read Dockerfile")
  /\ UNCHANGED <<fs_lock, fs_dockerfiles, lf, apiRest>>

\* update_dockerfile_info (112-116) on a file that may be unreadable:
\* [res, msg, val], val the Lockfile afterwards.  from_path's `?` returns
\* before the insert.  Before it, a faulty variant that drops the record of
\* the path when the file cannot be read.
try_update_dockerfile_info_drops(lock, path, file) ==
  IF file.readable
  THEN [res |-> "Ok", msg |-> "", val |-> update_dockerfile_info(lock, path, file)]
  ELSE [res |-> "Err", msg |-> "Failed to read Dockerfile",
        val |-> [lock EXCEPT !.dockerfiles =
                   [k \in DOMAIN lock.dockerfiles \ {path} |-> lock.dockerfiles[k]]]]

try_update_dockerfile_info(lock, path, file) ==
  IF file.readable
  THEN [res |-> "Ok", msg |-> "", val |-> update_dockerfile_info(lock, path, file)]
  ELSE [res |-> "Err", msg |-> "Failed to read Dockerfile", val |-> lock]

call_update_dockerfile_info(p, path) ==
  /\ p \in DOMAIN lf /\ lf[p] # <<>>
  /\ LET r == try_update_dockerfile_info(lf[p][1], path, fs_dockerfiles[path]) IN
       /\ lf' = [lf EXCEPT ![p] = <<r.val>>]
       /\ Returned(p, "update_dockerfile_info", path, r.res, r.msg)
  /\ UNCHANGED <<fs_lock, fs_dockerfiles, apiRest>>

\* lines 95-97: what save leaves on disk in place of the lockfile it finds
\* there: the serialized Lockfile, whatever the file holds.  Before it, a
\* faulty variant that keeps the records of the file that the caller does
\* not hold.
written_file_merges(lock, file) ==
  [kind |-> "valid", version |-> lock.version,
   dockerfiles |->
     [k \in DOMAIN lock.dockerfiles \cup (IF file.kind = "valid" THEN DOMAIN file.dockerfiles ELSE {})
        |-> IF k \in DOMAIN lock.dockerfiles THEN lock.dockerfiles[k] ELSE file.dockerfiles[k]]]

written_file(lock, file) ==
  [kind |-> "valid", version |-> lock.version, dockerfiles |-> lock.dockerfiles]

\* Lockfile::save (92-101); fs::write either replaces the file or fails and
\* leaves it
call_save(p, path) ==
  /\ p \in DOMAIN lf /\ lf[p] # <<>>
  /\ IF get_lockfile_path(path) = <<>>
     THEN /\ UNCHANGED fs_lock
          /\ Returned(p, "save", path, "Err", "Dockerfile has no parent directory")
     ELSE \E ok \in BOOLEAN :
            IF ok
            THEN /\ fs_lock' = written_file(lf[p][1], fs_lock)
                 /\ Returned(p, "save", path, "Ok", "")
            ELSE /\ UNCHANGED fs_lock
                 /\ Returned(p, "save", path, "Err", "Failed to write lockfile")
  /\ UNCHANGED <<fs_dockerfiles, lf, apiRest>>

\* the lockfiles a caller may find on disk
StoredMaps ==
  { EmptyMap,
    [x \in {dockerfile} |-> from_path([content |-> <<1>>, mtime |-> 2])],
    [x \in {dockerfile} |-> from_path([content |-> <<1>>, mtime |-> 1])],
    [x \in {dockerfile} |-> from_path([content |-> <<2>>, mtime |-> 2])],
    [x \in DockerfilePaths |-> from_path([content |-> <<2>>, mtime |-> 1])] }

LockfilesOnDisk ==
  {[kind |-> k, version |-> 0, dockerfiles |-> EmptyMap] : k \in {"missing", "unreadable", "corrupt"}}
    \cup {[kind |-> "valid", version |-> VERSION, dockerfiles |-> m] : m \in StoredMaps}
    \cup {[kind |-> "valid", version |-> VERSION + 1, dockerfiles |-> EmptyMap]}

InitLock ==
  /\ MainIdle
  /\ BuildIdle
  /\ RunIdle
  /\ NoLockAccess
  /\ LibIdle
  /\ fs_lock \in LockfilesOnDisk
  /\ fs_dockerfiles \in
       { [x \in DockerfilePaths |->
            IF x = dockerfile THEN [readable |-> r, content |-> <<1>>, mtime |-> 2]
            ELSE [readable |-> TRUE, content |-> <<2>>, mtime |-> 1]] : r \in BOOLEAN }
  /\ lf = [p \in Callers |-> <<>>]
  /\ ret = NoRet
  /\ phase = EmptyMap
  /\ target = EmptyMap

NextLock ==
  \/ \E p \in Callers, path \in DockerfilePaths \cup {""} : load_or_create(p, path) /\ UNCHANGED raceVars
  \/ \E p \in Callers, path \in DockerfilePaths : call_has_dockerfile_changed(p, path) /\ UNCHANGED raceVars
  \/ \E p \in Callers, path \in DockerfilePaths : call_update_dockerfile_info(p, path) /\ UNCHANGED raceVars
  \/ \E p \in Callers, path \in DockerfilePaths \cup {""} : call_save(p, path) /\ UNCHANGED raceVars

SpecLock == InitLock /\ [][NextLock]_vars

(***************************************************************************)
(* Two invocations on the lockfile of one directory                        *)
(*                                                                         *)
(* Each invocation loads the store, asks whether its Dockerfile changed,   *)
(* and if so computes the new record and saves the store.  Between their   *)
(* steps the Dockerfiles may be touched.                                   *)
(***************************************************************************)
Moved(p, to) == phase' = [phase EXCEPT ![p] = IF ret'.res = "Ok" THEN to ELSE "failed"]

invocation_load(p) ==
  /\ phase[p] = "start"
  /\ load_or_create(p, target[p])
  /\ Moved(p, "loaded")
  /\ UNCHANGED target

invocation_decide(p) ==
  /\ phase[p] = "loaded"
  /\ call_has_dockerfile_changed(p, target[p])
  /\ Moved(p, IF ret'.val = "yes" THEN "rebuild" ELSE "done")
  /\ UNCHANGED target

invocation_update(p) ==
  /\ phase[p] = "rebuild"
  /\ call_update_dockerfile_info(p, target[p])
  /\ Moved(p, "updated")
  /\ UNCHANGED target

invocation_save(p) ==
  /\ phase[p] = "updated"
  /\ call_save(p, target[p])
  /\ Moved(p, "saved")
  /\ UNCHANGED target

\* outside the program: a Dockerfile is touched (same content, another
\* modification time)
MTimes == {1, 2}

touch(path) ==
  /\ \E m \in MTimes \ {fs_dockerfiles[path].mtime} :
       fs_dockerfiles' = [fs_dockerfiles EXCEPT ![path].mtime = m]
  /\ UNCHANGED <<fs_lock, lf, ret, raceVars, apiRest>>

InitRace ==
  /\ MainIdle
  /\ BuildIdle
  /\ RunIdle
  /\ NoLockAccess
  /\ LibIdle
  /\ fs_lock \in LockfilesOnDisk
  /\ fs_dockerfiles \in
       { [x \in DockerfilePaths |->
            IF x = dockerfile THEN [readable |-> r, content |-> <<1>>, mtime |-> 2]
            ELSE [readable |-> TRUE, content |-> <<2>>, mtime |-> 1]] : r \in BOOLEAN }
  /\ lf = [p \in Callers |-> <<>>]
  /\ ret = NoRet
  /\ phase = [p \in Callers |-> "start"]
  /\ target \in [Callers -> DockerfilePaths]

NextRace ==
  \/ \E p \in Callers : invocation_load(p)
  \/ \E p \in Callers : invocation_decide(p)
  \/ \E p \in Callers : invocation_update(p)
  \/ \E p \in Callers : invocation_save(p)
  \/ \E path \in DockerfilePaths : touch(path)

SpecRace == InitRace /\ [][NextRace]_vars

(***************************************************************************)
(* containers/src/engine.rs: EngineType                                    *)
(*                                                                         *)
(* A string is the sequence of its characters, so that to_lowercase acts   *)
(* on each of them.                                                        *)
(***************************************************************************)
Docker == <<"d", "o", "c", "k", "e", "r">>

Podman == <<"p", "o", "d", "m", "a", "n">>

\* the letters of the strings of the model, lower case to upper case
UpperOf ==
  [ch \in {"a", "c", "d", "e", "k", "m", "n", "o", "p", "r", "s", "u", "w"} |->
     CASE ch = "a" -> "A" [] ch = "c" -> "C" [] ch = "d" -> "D" [] ch = "e" -> "E"
       [] ch = "k" -> "K" [] ch = "m" -> "M" [] ch = "n" -> "N" [] ch = "o" -> "O"
       [] ch = "p" -> "P" [] ch = "r" -> "R" [] ch = "s" -> "S" [] ch = "u" -> "U"
       [] ch = "w" -> "W"]

\* char::to_lowercase: an upper-case letter becomes its lower-case letter,
\* every other character stays
LowerChar(ch) ==
  IF \E l \in DOMAIN UpperOf : UpperOf[l] = ch
  THEN CHOOSE l \in DOMAIN UpperOf : UpperOf[l] = ch
  ELSE ch

\* str::to_lowercase
to_lowercase(str) == [i \in DOMAIN str |-> LowerChar(str[i])]

\* EngineType::as_command (31-36)
as_command(e) == IF e = "Docker" THEN Docker ELSE Podman

\* Display::fmt (39-43)
fmt(e) == as_command(e)

\* FromStr::from_str (48-54), after a faulty variant that compares the
\* string as it is
from_str_case_sensitive(str) ==
  IF str = Docker THEN [op |-> "from_str", res |-> "Ok", val |-> "Docker", msg |-> <<>>]
  ELSE IF str = Podman THEN [op |-> "from_str", res |-> "Ok", val |-> "Podman", msg |-> <<>>]
  ELSE [op |-> "from_str", res |-> "Err", val |-> "", msg |-> <<"Unknown engine type: ">> \o str]

from_str(str) ==
  IF to_lowercase(str) = Docker
  THEN [op |-> "from_str", res |-> "Ok", val |-> "Docker", msg |-> <<>>]
  ELSE IF to_lowercase(str) = Podman
  THEN [op |-> "from_str", res |-> "Ok", val |-> "Podman", msg |-> <<>>]
  ELSE [op |-> "from_str", res |-> "Err", val |-> "", msg |-> <<"Unknown engine type: ">> \o str]

\* Default::default (57-61)
default == "Podman"

\* the spellings of a word in upper and lower case letters
Spellings(word) ==
  {str \in [DOMAIN word -> {word[i] : i \in DOMAIN word} \cup {UpperOf[word[i]] : i \in DOMAIN word}] :
     \A i \in DOMAIN word : str[i] \in {word[i], UpperOf[word[i]]}}

\* strings that name no engine
OtherStrings ==
  { <<>>, <<"u", "n", "k", "n", "o", "w", "n">>, <<"d", "o", "c", "k", "e", "r", "s">>,
    <<"d", "o", "c", "k", "e">>, <<"d", "o", "c", "k", "e", "r", " ">>,
    <<"p", "o", "d", "-", "m", "a", "n">>, <<"P", "O", "D", "M", "A", "M">> }

EngineStrings == Spellings(Docker) \cup Spellings(Podman) \cup OtherStrings

\* s.parse::<EngineType>()
parse ==
  /\ eng_r.op = ""
  /\ eng_r' = from_str(eng_s)
  /\ UNCHANGED <<eng_s, eng_text, findVars, mainVars, buildVars, apiVars, raceVars, runVars,
                 lock_reads, lock_writes>>

\* EngineType::default()
take_default ==
  /\ eng_r.op = ""
  /\ eng_r' = [op |-> "default", res |-> "Ok", val |-> default, msg |-> <<>>]
  /\ UNCHANGED <<eng_s, eng_text, findVars, mainVars, buildVars, apiVars, raceVars, runVars,
                 lock_reads, lock_writes>>

\* format!("{}", e) of the value at hand
display ==
  /\ eng_r.res = "Ok"
  /\ eng_text = <<>>
  /\ eng_text' = <<fmt(eng_r.val)>>
  /\ UNCHANGED <<eng_s, eng_r, findVars, mainVars, buildVars, apiVars, raceVars, runVars,
                 lock_reads, lock_writes>>

\* e.as_command().parse::<EngineType>() of the value at hand
parse_as_command ==
  /\ eng_r.res = "Ok"
  /\ eng_r.op # "as_command"
  /\ eng_s' = as_command(eng_r.val)
  /\ eng_r' = [from_str(as_command(eng_r.val)) EXCEPT !.op = "as_command"]
  /\ UNCHANGED <<eng_text, findVars, mainVars, buildVars, apiVars, raceVars, runVars,
                 lock_reads, lock_writes>>

InitEngine ==
  /\ MainIdle
  /\ BuildIdle
  /\ ApiIdle
  /\ RunIdle
  /\ NoLockAccess
  /\ eng_s \in EngineStrings
  /\ eng_r = NoResult
  /\ eng_text = <<>>
  /\ find_pc = "idle"
  /\ find_cwd = <<>>
  /\ find_home = <<>>
  /\ find_has = {}
  /\ find_dir = <<>>
  /\ find_visited = <<>>
  /\ find_ret = <<>>

NextEngine ==
  \/ parse
  \/ take_default
  \/ display
  \/ parse_as_command

SpecEngine == InitEngine /\ [][NextEngine]_vars

(***************************************************************************)
(* containers/src/dockerfile.rs: DockerfileLocator::find, which is also    *)
(* find_dockerfile of containers/src/main.rs (113-141)                     *)
(*                                                                         *)
(* A directory is the sequence of its components, the root the empty one.  *)
(* find_cwd and find_home are the Options that env::current_dir().ok() and *)
(* home::home_dir() give; find_has is the set of directories that hold a   *)
(* Dockerfile; find_visited lists the directories whose Dockerfile was     *)
(* looked for; find_ret is the Option returned.                            *)
(***************************************************************************)
Root == <<>>

Dirs ==
  { Root, <<"home">>, <<"home", "u">>, <<"home", "u", "w">>, <<"home", "u", "w", "p">>,
    <<"srv">>, <<"srv", "w">> }

\* Path::parent, as an Option: the root has none
parent(dir) == IF dir = Root THEN <<>> ELSE <<SubSeq(dir, 1, Len(dir) - 1)>>

\* dir.join("Dockerfile")
join_Dockerfile(dir) == Append(dir, "Dockerfile")

\* dockerfile.exists()
exists(dir) == dir \in find_has

findRest ==
  <<find_cwd, find_home, find_has, engVars, mainVars, buildVars, apiVars, raceVars, runVars,
    lock_reads, lock_writes>>

find_return(r) ==
  /\ find_ret' = r
  /\ find_pc' = "done"

\* lines 47-48: both `?` return None
find_enter ==
  /\ find_pc = "start"
  /\ IF Len(find_cwd) = 0 \/ Len(find_home) = 0
     THEN find_return(<<>>) /\ UNCHANGED find_dir
     ELSE find_dir' = find_cwd[1] /\ find_pc' = "loop" /\ UNCHANGED find_ret
  /\ UNCHANGED <<find_visited, findRest>>

\* lines 50-64: one turn of the loop
find_loop ==
  /\ find_pc = "loop"
  /\ find_visited' = Append(find_visited, find_dir)
  /\ IF exists(find_dir)
     THEN find_return(<<join_Dockerfile(find_dir)>>) /\ UNCHANGED find_dir
     ELSE IF find_dir = find_home[1] \/ find_dir = Root
     THEN find_pc' = "home" /\ UNCHANGED <<find_dir, find_ret>>
     ELSE IF Len(parent(find_dir)) = 0
     THEN find_return(<<>>) /\ UNCHANGED find_dir
     ELSE find_dir' = parent(find_dir)[1] /\ UNCHANGED <<find_pc, find_ret>>
  /\ UNCHANGED findRest

\* lines 66-73: the home directory, after the loop
find_check_home ==
  /\ find_pc = "home"
  /\ find_visited' = Append(find_visited, find_home[1])
  /\ find_return(IF exists(find_home[1]) THEN <<join_Dockerfile(find_home[1])>> ELSE <<>>)
  /\ UNCHANGED <<find_dir, findRest>>

InitFind ==
  /\ MainIdle
  /\ BuildIdle
  /\ ApiIdle
  /\ RunIdle
  /\ NoLockAccess
  /\ eng_s = <<>>
  /\ eng_r = NoResult
  /\ eng_text = <<>>
  /\ find_pc = "start"
  /\ find_cwd \in {<<>>} \cup {<<d>> : d \in Dirs}
  /\ find_home \in {<<>>} \cup {<<d>> : d \in Dirs}
  /\ find_has \in SUBSET Dirs
  /\ find_dir = <<>>
  /\ find_visited = <<>>
  /\ find_ret = <<>>

NextFind ==
  \/ find_enter
  \/ find_loop
  \/ find_check_home

SpecFind == InitFind /\ [][NextFind]_vars

(***************************************************************************)
(* Properties of one invocation of containers/src/main.rs                  *)
(***************************************************************************)
Ended == pc \in {"done", "error"}

ArgvOf(seq) == [i \in DOMAIN seq |-> seq[i].argv]

\* the lifecycle operations launched so far (create-and-run, start, exec)
LifecycleOps == SelectSeq(log, LAMBDA e : e.argv[1] \in {"run", "start", "exec"})

Issued(op) == \E i \in DOMAIN log : log[i].argv[1] = op

BuildIssued == Issued("build")

\* C1: when the engine reports the named container as existing and running
\* at the lifecycle step, the only lifecycle operation launched is exec on
\* that container (never create-and-run, never start), and an invocation
\* that has ended has launched it.
C1_RunningOnlyExec ==
  (lc_exists = "yes" /\ lc_running = "yes")
    => /\ ArgvOf(LifecycleOps) \in {<<>>, << <<"exec", "-it", container_name, "/bin/bash">> >>}
       /\ Ended => Len(LifecycleOps) = 1

C1_Witness ==
  /\ pc = "done"
  /\ lc_exists = "yes" /\ lc_running = "yes"
  /\ ArgvOf(LifecycleOps) = << <<"exec", "-it", container_name, "/bin/bash">> >>

\* C2: when the container exists but is not running, start is launched
\* first and exec second; exec is launched only once the start call has
\* returned, it is launched whenever start ran, and create-and-run is never
\* launched.
C2_StoppedStartThenExec ==
  (lc_exists = "yes" /\ lc_running = "no")
    => LET ops == LifecycleOps IN
       /\ ArgvOf(ops) \in
            { <<>>,
              << <<"start", container_name>> >>,
              << <<"start", container_name>>, <<"exec", "-it", container_name, "/bin/bash">> >> }
       /\ Len(ops) = 2 => ops[1].st = "exited"
       /\ (Ended /\ Len(ops) >= 1 /\ ops[1].st = "exited") => Len(ops) = 2
       /\ Ended => Len(ops) >= 1

C2_Witness ==
  /\ pc = "done"
  /\ lc_exists = "yes" /\ lc_running = "no"
  /\ Len(LifecycleOps) = 2
  /\ LifecycleOps[1].argv[1] = "start" /\ LifecycleOps[2].argv[1] = "exec"

AtLifecycle == pc = "container_exists" /\ ~Pending

\* the launch of a command of the build phase under the force flag failed
PreBuildLaunchFailed ==
  /\ pc = "error" /\ err = "io"
  /\ Last.st = "ioerr" /\ Last.argv[1] \in {"ps", "rm"}

HashMismatch ==
  /\ dockerfile \in DOMAIN lock_store
  /\ lock_store[dockerfile].content_hash # from_path(dockerfile_file).content_hash

\* C6: when the stored record's hash differs from the current definition's
\* hash, the build is invoked even though the force flag is not set and the
\* engine reports the image as present.
C6_HashMismatchBuilds ==
  (AtLifecycle /\ dockerfile_exists /\ ~update_image /\ image_found = "yes" /\ HashMismatch)
    => BuildIssued

\* C7: with the force flag not set, the image reported present and the
\* definition unchanged with respect to the stored record, neither the
\* build nor the container removal is invoked.
C7_SkipWhenUnchanged ==
  (~update_image /\ image_found = "yes"
     /\ ~has_dockerfile_changed(lock_store, dockerfile, dockerfile_file))
    => (~Issued("build") /\ ~Issued("rm"))

C7_Witness ==
  /\ pc = "done"
  /\ dockerfile_exists /\ ~update_image /\ image_found = "yes"
  /\ ~has_dockerfile_changed(lock_store, dockerfile, dockerfile_file)
  /\ ~Issued("build") /\ ~Issued("rm")

\* C8: when the force flag triggers a build and a container of the same
\* name exists, remove_container is invoked for that name, and it has
\* returned before build_image is invoked.
C8_RemoveBeforeBuild ==
  (update_image /\ pre_exists = "yes")
    => /\ (pc # "remove_container" \/ Pending)
            => \E j \in DOMAIN log : log[j].argv = <<"rm", "-f", container_name>>
       /\ \A i \in DOMAIN log :
            log[i].argv[1] = "build"
              => \E j \in 1..(i - 1) :
                   log[j].argv = <<"rm", "-f", container_name>> /\ log[j].st = "exited"

C8_Witness ==
  /\ pc = "done"
  /\ update_image /\ pre_exists = "yes"
  /\ Issued("rm") /\ BuildIssued

\* C9: after a rebuild triggered by the force flag has succeeded, no start
\* or exec of the same invocation targets a container created from the
\* superseded image, whatever the outcome of the engine's remove.
C9_NoStaleAttach ==
  \A i \in DOMAIN log :
    (/\ log[i].argv[1] \in {"start", "exec"}
     /\ update_image
     /\ \E j \in 1..(i - 1) :
          log[j].argv[1] = "build" /\ log[j].st = "exited" /\ log[j].code = 0)
      => log[i].gen # "old"

\* C10: when build_image leaves a non-zero exit the invocation ends with an
\* error and nothing is launched after the build.
C10_FailedBuildFatal ==
  \A i \in DOMAIN log :
    (log[i].argv[1] = "build" /\ log[i].st = "exited" /\ log[i].code # 0)
      => /\ i = Len(log)
         /\ pc = "error" /\ result = "Err" /\ err = "Failed to build image"

C10_Witness ==
  /\ pc = "error"
  /\ Len(log) > 0
  /\ Last.argv[1] = "build" /\ Last.st = "exited" /\ Last.code # 0

\* C11: a non-zero exit of the engine's start, create-and-run or remove
\* subprocess is fatal: nothing is launched after it (no exec after a failed
\* start, no build after a failed remove) and the invocation ends with an
\* error.
C11_NonZeroExitFatal ==
  \A i \in DOMAIN log :
    (log[i].argv[1] \in {"start", "run", "rm"} /\ log[i].st = "exited" /\ log[i].code # 0)
      => (i = Len(log) /\ pc = "error" /\ result = "Err")

\* C12: when the invocation has ended after an attached session (exec or
\* create-and-run) that left exit code c, the exit code of the tool is c.
C12_ExitStatusForwarded ==
  (Ended /\ Len(log) > 0 /\ Last.argv[1] \in {"exec", "run"} /\ Last.st = "exited")
    => ExitCode = Last.code

OpCount(op) == Cardinality({i \in DOMAIN log : log[i].argv[1] = op})

\* the steps of main in program order
Rank(l) ==
  CASE l = "main" -> 0
    [] l = "image_exists" -> 1
    [] l = "should_build" -> 2
    [] l = "pre_container_exists" -> 3
    [] l = "remove_container" -> 4
    [] l = "build_image" -> 5
    [] l = "container_exists" -> 6
    [] l = "container_running" -> 7
    [] l = "start_container" -> 8
    [] l = "exec_container" -> 9
    [] l = "create_and_run_container" -> 9
    [] OTHER -> 10

\* the rows of the lifecycle table, as the operations they launch
LifecycleRows ==
  { << <<"run">> >>, << <<"start">>, <<"exec">> >>, << <<"exec">> >> }

OpsOf(seq) == [i \in DOMAIN seq |-> <<seq[i].argv[1]>>]

IsPrefix(a, b) == Len(a) <= Len(b) /\ SubSeq(b, 1, Len(a)) = a

\* C13: an invocation is a single pass: each of build, remove, start, exec
\* and create-and-run is launched at most once, the lifecycle operations are
\* those of one row of the table (the whole row when the invocation
\* succeeded), control only moves forward, and nothing follows a failure.
C13_SinglePass ==
  /\ [](/\ \A op \in {"build", "rm", "start", "exec", "run"} : OpCount(op) <= 1
        /\ \E row \in LifecycleRows : IsPrefix(OpsOf(LifecycleOps), row)
        /\ pc = "done" => OpsOf(LifecycleOps) \in LifecycleRows)
  /\ [][/\ Rank(pc') >= Rank(pc)
        /\ pc = "error" => pc' = "error"
        /\ Len(log') >= Len(log) /\ SubSeq(log', 1, Len(log) - 1) = SubSeq(log, 1, Len(log) - 1)]_vars

C13_Witness ==
  /\ pc = "done"
  /\ OpCount("rm") = 1 /\ OpCount("build") = 1 /\ OpCount("run") = 1
  /\ OpsOf(LifecycleOps) = << <<"run">> >>

\* every engine operation launched so far succeeded, or has not returned yet
AllSucceeded ==
  \A i \in DOMAIN log : log[i].st = "pending" \/ (log[i].st = "exited" /\ log[i].code = 0)

Attaches ==
  Cardinality({i \in DOMAIN log :
                 /\ log[i].argv[1] \in {"exec", "run"}
                 /\ \E k \in DOMAIN log[i].argv : log[i].argv[k] = container_name})

BuildFailed ==
  /\ bpc = "error"
  /\ Len(blog) > 0
  /\ blog[Len(blog)].argv[1] = "build"
  /\ blog[Len(blog)].st = "exited" /\ blog[Len(blog)].code # 0

\* C4: when the engine build fails, the persisted lockfile (the prior
\* record, or its absence) is after the invocation what it was before.
C4_FailedBuildLeavesLockfile == BuildFailed => lock_file = lock_file0

\* the containers this invocation is asked to build
Selected == IF build_arg # "" THEN {build_arg} ELSE DOMAIN config_file.containers

BuiltOk(n) ==
  \E i \in DOMAIN blog :
    /\ blog[i].argv[5] = "dockerfiles/Dockerfile." \o n
    /\ blog[i].st = "exited" /\ blog[i].code = 0

\* C15: starting from an empty lock store, a build is launched for every
\* selected definition of an invocation that succeeds, and once the engine
\* has reported the build of a definition successful the persisted store
\* holds a record for its name whose content_hash is the hash of the current
\* definition, so that changed(store, name, hash) is false.
C15_ScenarioA ==
  ~lock_file0.exists
    => /\ bpc = "done" => \A n \in Selected : BuiltOk(n)
       /\ \A n \in DOMAIN config_file.containers :
            BuiltOk(n)
              => /\ lock_file.exists
                 /\ n \in DOMAIN lock_file.containers
                 /\ \A order \in IterationOrders :
                      /\ lock_file.containers[n].content_hash = Hash(config_file.containers[n], order)
                      /\ ~changed(lock_file.containers, n, Hash(config_file.containers[n], order))

C15_Witness ==
  /\ bpc = "done"
  /\ ~lock_file0.exists
  /\ BuiltOk("default") /\ BuiltOk("extra")
  /\ DOMAIN lock_file.containers = {"default", "extra"}
  /\ lock_file.containers["default"].content_hash = Hash(DefB, KeyOrder)

(***************************************************************************)
(* Properties of the callers of the per-Dockerfile Lockfile                *)
(***************************************************************************)
\* the last call was has_dockerfile_changed on a readable Dockerfile
AnsweredChanged == ret.op = "has_dockerfile_changed" /\ ret.res = "Ok"

\* the store the last caller holds
Held == lf[ret.caller][1].dockerfiles

\* C16: has_dockerfile_changed answers true for every readable Dockerfile
\* path that has no entry in the store.
C16_NoRecordMeansChanged ==
  (/\ ret.op = "has_dockerfile_changed"
   /\ fs_dockerfiles[ret.path].readable
   /\ ret.path \notin DOMAIN Held)
    => (ret.res = "Ok" /\ ret.val = "yes")

C16_Witness ==
  /\ AnsweredChanged
  /\ ret.path = dockerfile /\ dockerfile \notin DOMAIN Held /\ OtherDockerfile \in DOMAIN Held
  /\ ret.val = "yes"

\* C17: has_dockerfile_changed answers true exactly when the store has no
\* record for the path or the stored hash differs from the current hash; a
\* record with the current hash is reported as unchanged whatever its
\* modification time and size.
C17_HashAuthoritative ==
  AnsweredChanged
    => (ret.val = "yes"
          <=> (\/ ret.path \notin DOMAIN Held
               \/ Held[ret.path].content_hash
                    # calculate_hash(fs_dockerfiles[ret.path].content)))

\* load_or_create of a directory without a lockfile returns Lockfile::new()
LoadOrCreateOnMissing ==
  (ret.op = "load_or_create" /\ fs_lock.kind = "missing" /\ ret.path # "")
    => (ret.res = "Ok" /\ lf[ret.caller] = <<new>>)

\* C19: a lockfile that exists but cannot be parsed makes load_or_create
\* return an error: no caller ever holds a store (empty or other) in its
\* place, so no change is ever reported from it.
C19_CorruptIsFatal ==
  fs_lock.kind = "corrupt"
    => /\ \A p \in DOMAIN lf : lf[p] = <<>>
       /\ ret.op = "load_or_create" => ret.res = "Err"
       /\ ret.op \in {"", "load_or_create"}

C19_Witness ==
  /\ fs_lock.kind = "corrupt"
  /\ ret.op = "load_or_create" /\ ret.path = dockerfile
  /\ ret.res = "Err" /\ ret.val = "Failed to parse lockfile"
  /\ lf[ret.caller] = <<>>

(***************************************************************************)
(* Properties of one invocation of `containers run`                        *)
(***************************************************************************)
\* run_container is past the step that loads the lock store
PastLoad == container_config # <<>> /\ rpc \notin {"from_file", "get_container", "load_lockfile"}

\* C18: loading the lock store does not fail because the lockfile is
\* missing: with no lockfile on disk the load step yields an empty store
\* and no error.
C18_LoadNeverFailsOnMissing ==
  (PastLoad /\ ~lock_file.exists) => (rerr # NoLockfileFound /\ lockfile = EmptyMap)

\* run_container forwards the exit code of the docker process
RunForwardsExit ==
  (rpc \in {"done", "exit"} /\ rlog[Len(rlog)].st = "exited")
    => rexit = <<rlog[Len(rlog)].code>>

\* run_container reads the lock store at most once and never writes it
RunLockAccess == lock_reads <= 1 /\ lock_writes = 0 /\ (rpc = "done" => lock_reads = 1)

C21_UpdateOverwritesOneKey ==
  [][(ret'.op = "update_dockerfile_info" /\ ret'.res = "Ok")
       => LET p == ret'.caller
              path == ret'.path
              old == lf[p][1]
              now == lf'[p][1]
          IN /\ now.dockerfiles[path] = from_path(fs_dockerfiles[path])
             /\ DOMAIN now.dockerfiles = DOMAIN old.dockerfiles \cup {path}
             /\ \A k \in DOMAIN old.dockerfiles \ {path} : now.dockerfiles[k] = old.dockerfiles[k]
             /\ now.version = old.version
             /\ \A q \in Callers \ {p} : lf'[q] = lf[q]
             /\ fs_lock' = fs_lock]_vars

C21_Witness ==
  /\ ret.op = "update_dockerfile_info" /\ ret.res = "Ok" /\ ret.path = dockerfile
  /\ fs_lock.kind = "valid"
  /\ DOMAIN fs_lock.dockerfiles = DockerfilePaths
  /\ DOMAIN Held = DockerfilePaths
  /\ Held[dockerfile] = from_path(fs_dockerfiles[dockerfile])
  /\ Held[dockerfile].content_hash # fs_lock.dockerfiles[dockerfile].content_hash
  /\ Held[dockerfile].modified_time # fs_lock.dockerfiles[dockerfile].modified_time
  /\ Held[OtherDockerfile] = fs_lock.dockerfiles[OtherDockerfile]

\* the record of its own Dockerfile that an invocation holds
OwnRecord(p) == lf[p][1].dockerfiles[target[p]]

Computed(p) == phase[p] \in {"updated", "saved"}

\* C22: a successful save leaves on disk exactly the store the saver holds in
\* memory, whatever another invocation persisted since the saver loaded: no
\* lock is taken and nothing of the file on disk is compared or kept.  So
\* two invocations that both loaded, both decided to rebuild and both saved
\* can end with the record of the earlier save missing from the lockfile.
C22_SaveReplacesStore ==
  (ret.op = "save" /\ ret.res = "Ok")
    => /\ fs_lock.kind = "valid"
       /\ fs_lock.dockerfiles = Held
       /\ fs_lock.version = lf[ret.caller][1].version

C22_Witness ==
  /\ phase = [p \in Callers |-> "saved"]
  /\ ret.caller = "q" /\ ret.op = "save" /\ ret.res = "Ok"
  /\ target["p"] # target["q"]
  /\ target["p"] \in DOMAIN lf["p"][1].dockerfiles
  /\ target["p"] \notin DOMAIN fs_lock.dockerfiles

\* C23: two invocations that computed the record of the same Dockerfile,
\* whose content did not change, hold the same digest, also when the file
\* was touched between the two computations: the digest is the hash of the
\* content bytes and carries nothing of the modification time.
C23_DigestOfContentOnly ==
  \A p \in Callers, q \in Callers :
    (Computed(p) /\ Computed(q) /\ target[p] = target[q])
      => /\ OwnRecord(p).content_hash = OwnRecord(q).content_hash
         /\ OwnRecord(p).content_hash = calculate_hash(fs_dockerfiles[target[p]].content)

C23_Witness ==
  /\ Computed("p") /\ Computed("q")
  /\ target["p"] = target["q"]
  /\ OwnRecord("p").modified_time # OwnRecord("q").modified_time
  /\ OwnRecord("p").content_hash = OwnRecord("q").content_hash

\* the fields in which two definitions differ
FieldsApart(d, e) == {f \in DOMAIN d : d[f] # e[f]}

\* the record of the lockfile found on disk was made from definition d
MadeFrom(n, d) ==
  /\ n \in DOMAIN lock_file0.containers
  /\ \E order \in IterationOrders : lock_file0.containers[n] = ContainerLock(n, d, order)

\* C24: when the lockfile on disk holds for a container the record of a
\* definition that differs from the current one in exactly one field, the
\* hash computed for the current definition is not the recorded one, and
\* changed answers true for the record on disk.
C24_OneFieldChangesHash ==
  \A n \in DOMAIN lockfile, d \in Edits :
    (MadeFrom(n, d) /\ Cardinality(FieldsApart(d, config[n])) = 1)
      => /\ lockfile[n].content_hash # lock_file0.containers[n].content_hash
         /\ changed(lock_file0.containers, n, lockfile[n].content_hash)

C24_Witness ==
  /\ bpc = "done"
  /\ MadeFrom("default", DefB)
  /\ FieldsApart(DefB, config["default"]) = {"volumes"}
  /\ changed(lock_file0.containers, "default", lockfile["default"].content_hash)

\* C25: the hash an invocation computes for a definition is the same for
\* every order in which the entries of its environment mapping were inserted
\* or are iterated; so a record made of the same definition by an earlier
\* run is never reported as changed.
C25_HashIgnoresInsertionOrder ==
  \A n \in DOMAIN lockfile :
    /\ \A order \in IterationOrders : lockfile[n].content_hash = Hash(config[n], order)
    /\ MadeFrom(n, config[n]) => ~changed(lock_file0.containers, n, lockfile[n].content_hash)

C25_Witness ==
  /\ bpc = "done"
  /\ "default" \in DOMAIN lockfile
  /\ config["default"].environment # <<>>
  /\ DOMAIN config["default"].environment[1] = {"A", "B"}
  /\ MadeFrom("default", config["default"])

\* C26: rendering the artifacts again from the same definitions and the
\* same lock records leaves every artifact byte for byte as the earlier run
\* rendered it.
C26_RenderDeterministic ==
  [][\A path \in DOMAIN files : files'[path] = files[path]]_vars

\* the environment declarations of a rendered artifact, in their order
EnvDeclarations(text) ==
  SelectSeq(text, LAMBDA line :
    \E k \in EnvKeys, d \in Defs :
      /\ d.environment # <<>>
      /\ k \in DOMAIN d.environment[1]
      /\ line = "ENV " \o k \o "=" \o d.environment[1][k] \o "\n")

\* C27: in every artifact written for a container the environment
\* declarations are those of its definition in lexicographic order of the
\* keys.
C27_EnvSortedByKey ==
  \A n \in DOMAIN config :
    ("dockerfiles/Dockerfile." \o n) \in DOMAIN files /\ config[n].environment # <<>>
      => LET env == config[n].environment[1]
             ks == SortedKeys(env)
         IN EnvDeclarations(files["dockerfiles/Dockerfile." \o n])
              = [i \in DOMAIN ks |-> "ENV " \o ks[i] \o "=" \o env[ks[i]] \o "\n"]

\* the sections of the artifact of container n, as the sets of their lines
BaseSection(n) == {"FROM " \o lockfile[n].base_image \o "\n\n"}

SystemSection ==
  {"# Install system dependencies\n", "RUN apt-get update && apt-get install -y \\\n",
   "    sudo \\\n", "    && rm -rf /var/lib/apt/lists/*\n\n"}

StepLine(dep) ==
  IF dep.source = "apt"
  THEN "RUN apt-get update && apt-get install -y "
         \o (IF dep.version # "latest" THEN dep.package \o "=" \o dep.version ELSE dep.package)
         \o " && rm -rf /var/lib/apt/lists/*\n"
  ELSE IF dep.source = "pip"
  THEN "RUN pip install "
         \o (IF dep.version # "latest" THEN dep.package \o "==" \o dep.version ELSE dep.package)
  ELSE "# TODO: Install " \o dep.package \o " from " \o dep.source \o "\n"

StepLines(n) == [i \in DOMAIN lockfile[n].dependencies |-> StepLine(lockfile[n].dependencies[i])]

AllStepLines ==
  UNION {{StepLine(LockDep(d.dependencies[i])) : i \in DOMAIN d.dependencies} : d \in Defs}

DependencySection(n) == {"# Install dependencies\n"} \cup {StepLines(n)[i] : i \in DOMAIN StepLines(n)}

EnvironmentSection(n) ==
  {"# Set environment variables\n"}
    \cup (IF config[n].environment = <<>> THEN {}
          ELSE {"ENV " \o k \o "=" \o config[n].environment[1][k] \o "\n" :
                  k \in DOMAIN config[n].environment[1]})

UserSection ==
  {"# Create user\n", "ARG UID=1000\n", "ARG GID=1000\n", "RUN groupadd -g $GID code && \\\n",
   "    useradd -m -u $UID -g $GID -s /bin/bash code && \\\n",
   "    usermod -aG sudo code && \\\n",
   "    echo 'code ALL=(ALL) NOPASSWD: ALL' >> /etc/sudoers\n\n"}

EntrypointSection ==
  {"# Copy and set entrypoint\n", "COPY entrypoint.sh /entrypoint.sh\n",
   "RUN chmod +x /entrypoint.sh\n\n", "USER code\n", "WORKDIR /home/code/work\n\n",
   "ENTRYPOINT [\"/entrypoint.sh\"]\n"}

CommandLine(cmd) == "CMD [" \o Join([i \in DOMAIN cmd |-> "\"" \o cmd[i] \o "\""], ", ") \o "]\n"

AllCommandLines == {CommandLine(d.command[1]) : d \in {d \in Defs : d.command # <<>>}}

Sections(n) ==
  << BaseSection(n), SystemSection, DependencySection(n), EnvironmentSection(n), UserSection,
     EntrypointSection, AllCommandLines >>

Occurrences(text, line) == Cardinality({i \in DOMAIN text : text[i] = line})

Artifact(n) == files["dockerfiles/Dockerfile." \o n]

Rendered(n) == n \in DOMAIN config /\ n \in DOMAIN lockfile /\ ("dockerfiles/Dockerfile." \o n) \in DOMAIN files

\* C28: in every artifact written, the lines of the sections come in the
\* order base image, system dependencies, dependency steps, environment
\* declarations, user creation, entrypoint, command; the lines of the fixed
\* sections are each there once; the dependency steps are one per
\* dependency lock in the lock's order, and their block is there exactly
\* when the lock has dependencies; the environment block is there exactly
\* when the definition has an environment; the command directive is there
\* exactly when the definition has a command, and is then the last line,
\* and otherwise the entrypoint directive is the last line.
C28_SectionsInFixedOrder ==
  \A n \in ConfigNames :
    Rendered(n)
      => LET text == Artifact(n)
             secs == Sections(n)
         IN /\ \A a \in DOMAIN secs, b \in DOMAIN secs, i \in DOMAIN text, j \in DOMAIN text :
                 (a < b /\ text[i] \in secs[a] /\ text[j] \in secs[b]) => i < j
            /\ text[1] \in BaseSection(n)
            /\ \A line \in BaseSection(n) \cup SystemSection \cup UserSection \cup EntrypointSection :
                 Occurrences(text, line) = 1
            /\ SelectSeq(text, LAMBDA line : line \in AllStepLines) = StepLines(n)
            /\ Occurrences(text, "# Install dependencies\n")
                 = (IF lockfile[n].dependencies = <<>> THEN 0 ELSE 1)
            /\ Occurrences(text, "# Set environment variables\n")
                 = (IF config[n].environment = <<>> THEN 0 ELSE 1)
            /\ \A line \in EnvironmentSection(n) \ {"# Set environment variables\n"} :
                 Occurrences(text, line) = 1
            /\ IF config[n].command = <<>>
               THEN /\ \A line \in AllCommandLines : Occurrences(text, line) = 0
                    /\ text[Len(text)] = "ENTRYPOINT [\"/entrypoint.sh\"]\n"
               ELSE /\ \A line \in AllCommandLines :
                         Occurrences(text, line)
                           = (IF line = CommandLine(config[n].command[1]) THEN 1 ELSE 0)
                    /\ text[Len(text)] = CommandLine(config[n].command[1])

C28_Witness ==
  /\ bpc = "done"
  /\ Rendered("default") /\ config["default"] = DefB
  /\ Rendered("extra") /\ config["extra"] = DefA

\* the dependency locks of container n that name a source other than apt
\* and pip
Unrecognized(n) ==
  {i \in DOMAIN lockfile[n].dependencies : lockfile[n].dependencies[i].source \notin {"apt", "pip"}}

Placeholder(dep) == "# TODO: Install " \o dep.package \o " from " \o dep.source \o "\n"

\* C29: rendering an artifact for a lock with a dependency of an
\* unrecognized source does not fail: the artifact is written, it holds for
\* each such dependency exactly one placeholder line naming its package and
\* source, and after that line come the steps of the dependencies that
\* follow it in the lock, the user creation and the entrypoint directive.
C29_PlaceholderForUnknownSource ==
  \A n \in ConfigNames :
    /\ (n \in DOMAIN config /\ n \in DOMAIN lockfile /\ bpc = "docker_build" /\ Head(to_build) = n)
         => Rendered(n)
    /\ Rendered(n)
         => LET text == Artifact(n)
                deps == lockfile[n].dependencies
            IN \A i \in Unrecognized(n) :
                 /\ Occurrences(text, Placeholder(deps[i])) = 1
                 /\ \A p \in DOMAIN text :
                      text[p] = Placeholder(deps[i])
                        => /\ \A j \in DOMAIN deps :
                                j > i => \E q \in DOMAIN text : q > p /\ text[q] = StepLine(deps[j])
                           /\ \E q \in DOMAIN text : q > p /\ text[q] = "# Create user\n"
                           /\ \E q \in DOMAIN text : q > p /\ text[q] = "ENTRYPOINT [\"/entrypoint.sh\"]\n"

C29_Witness ==
  /\ bpc = "done"
  /\ Rendered("default") /\ config["default"] = DefC
  /\ Unrecognized("default") = {1}
  /\ Len(lockfile["default"].dependencies) = 2

\* C30: init on a directory that holds a containers.toml fails with
\* "containers.toml already exists" and leaves the file as it is; the file
\* is written only by an init that found none, and a successful init leaves
\* the default configuration in it.
C30_InitRefusesExistingConfig ==
  [][bpc = "init_config"
       => /\ config_file.exists
               => /\ bresult' = "Err"
                  /\ berr' = "containers.toml already exists"
                  /\ config_file' = config_file
          /\ config_file' # config_file => ~config_file.exists
          /\ bresult' = "Ok"
               => /\ ~config_file.exists
                  /\ config_file' = [exists |-> TRUE,
                                     containers |-> [n \in {"default"} |-> default_config]]]_vars

C30_Witness ==
  /\ bpc = "error"
  /\ berr = "containers.toml already exists"
  /\ config_file.exists
  /\ DOMAIN config_file.containers = {"default", "extra"}
  /\ config_file.containers["default"] = DefB

\* C31: from_str answers Docker for every spelling of "docker" in upper and
\* lower case letters, Podman for every spelling of "podman", and an error
\* naming the string for every other string; the default is Podman; Display
\* writes "docker" for Docker and "podman" for Podman, which is as_command;
\* and parsing as_command of a value gives that value back.
C31_EngineTypeParsing ==
  /\ [](/\ eng_r.op = "from_str"
             => /\ eng_s \in Spellings(Docker) => (eng_r.res = "Ok" /\ eng_r.val = "Docker")
                /\ eng_s \in Spellings(Podman) => (eng_r.res = "Ok" /\ eng_r.val = "Podman")
                /\ eng_s \notin Spellings(Docker) \cup Spellings(Podman)
                     => (eng_r.res = "Err" /\ eng_r.msg = <<"Unknown engine type: ">> \o eng_s)
        /\ eng_r.op = "default" => (eng_r.res = "Ok" /\ eng_r.val = "Podman")
        /\ (eng_text # <<>> /\ eng_r.val = "Docker") => eng_text[1] = Docker
        /\ (eng_text # <<>> /\ eng_r.val = "Podman") => eng_text[1] = Podman
        /\ eng_text # <<>> => eng_text[1] = as_command(eng_r.val))
  /\ [][eng_r'.op = "as_command"
          => (eng_r'.res = "Ok" /\ eng_r'.val = eng_r.val /\ eng_s' = as_command(eng_r.val))]_vars

C31_Witness ==
  /\ eng_r.op = "as_command" /\ eng_r.res = "Ok" /\ eng_r.val = "Docker"
  /\ eng_text = <<Docker>>
  /\ eng_s = Docker

\* the build phase removed the container: its rm -f came back with exit 0
RemovedByBuildPhase ==
  \E j \in DOMAIN log :
    log[j].argv = <<"rm", "-f", container_name>> /\ log[j].st = "exited" /\ log[j].code = 0

\* C32: the lifecycle decision rests on a container listing asked from the
\* engine after the build phase: every lifecycle operation comes after a
\* `ps -a` that itself comes after every rm and build, and when the build
\* phase removed the container that listing answers absent and the only
\* lifecycle operation launched is create-and-run, never start or exec.
C32_LifecycleAfterBuildPhase ==
  /\ \A i \in DOMAIN log :
        log[i].argv[1] \in {"run", "start", "exec"}
          => \E k \in 1..(i - 1) :
               /\ log[k].argv = ps_all_argv /\ log[k].st = "exited"
               /\ \A j \in DOMAIN log : log[j].argv[1] \in {"rm", "build"} => j < k
  /\ (RemovedByBuildPhase /\ lc_exists # "unset")
        => /\ lc_exists = "no"
           /\ \A i \in DOMAIN log :
                log[i].argv[1] \in {"run", "start", "exec"} => log[i].argv[1] = "run"
           /\ Ended => (result = "Err" \/ Issued("run"))

C32_Witness ==
  /\ pc = "done"
  /\ pre_exists = "yes" /\ RemovedByBuildPhase
  /\ lc_exists = "no"
  /\ ArgvOf(LifecycleOps) = <<run_argv(container_name, image_name, current_dir, nvidia_args)>>

\* C33: image_exists answers true exactly when the engine lists the image
\* under the name itself or under localhost/name, and a listed image whose
\* repository only ends with the name does not keep the build from being
\* invoked.
C33_ImageExistsExact ==
  /\ (image_found # "unset" /\ ~BuildIssued) => image_found = Tri(TagResolves)
  /\ (AtLifecycle /\ dockerfile_exists /\ ~TagResolves /\ image_gen # "new") => BuildIssued

\* C35: an invocation without the force flag never invokes remove_container
\* and never asks for the container during the build phase, also when it
\* builds because the image is missing while the container exists.
C35_RemoveOnlyUnderForce ==
  ~update_image => (~Issued("rm") /\ pre_exists = "unset")

C35_Witness ==
  /\ pc = "done"
  /\ ~update_image /\ image_found = "no" /\ BuildIssued
  /\ lc_exists = "yes"
  /\ ~Issued("rm")

\* C36: when the Dockerfile is not on disk, no command of the build phase
\* is invoked (no image query, no container query of line 76, no rm, no
\* build), whatever the force flag and the images, and the first thing the
\* invocation does is the container query of the lifecycle step.
C36_NoDockerfileSkipsBuildPhase ==
  ~dockerfile_exists
    => /\ ~Issued("build") /\ ~Issued("rm") /\ ~Issued("images")
       /\ image_found = "unset" /\ pre_exists = "unset"
       /\ pc \in {"main", "container_exists", "container_running", "start_container",
                  "exec_container", "create_and_run_container", "done", "error"}
       /\ Len(log) > 0 => log[1].argv = ps_all_argv
       /\ pc = "done" => Len(LifecycleOps) > 0

C36_Witness ==
  /\ pc = "done"
  /\ ~dockerfile_exists /\ update_image /\ ~TagResolves
  /\ lc_exists = "yes"
  /\ Len(LifecycleOps) > 0

\* C37: update_dockerfile_info and has_dockerfile_changed on a Dockerfile
\* that cannot be read return an error, has_dockerfile_changed answering
\* neither true nor false, and the step leaves the store of every caller
\* and the lockfile on disk as they were; on a readable Dockerfile neither
\* returns an error.
C37_FailedUpdateLeavesStore ==
  [][(ret'.op \in {"update_dockerfile_info", "has_dockerfile_changed"})
       => IF fs_dockerfiles[ret'.path].readable
          THEN ret'.res = "Ok"
          ELSE /\ ret'.res = "Err"
               /\ ret'.val = "Failed to read Dockerfile"
               /\ ret'.val \notin {"yes", "no"}
               /\ lf' = lf
               /\ fs_lock' = fs_lock]_vars

C37_Witness ==
  /\ ret.op = "update_dockerfile_info" /\ ret.res = "Err" /\ ret.path = dockerfile
  /\ ~fs_dockerfiles[dockerfile].readable
  /\ DOMAIN lf[ret.caller][1].dockerfiles = DockerfilePaths
  /\ lf[ret.caller][1].dockerfiles = fs_lock.dockerfiles

\* the directories from dir upward, dir first, up to the home directory or
\* the root
RECURSIVE Ascent(_, _)
Ascent(dir, home) ==
  IF dir = Root \/ (Len(home) = 1 /\ dir = home[1]) THEN <<dir>>
  ELSE <<dir>> \o Ascent(parent(dir)[1], home)

\* the directories of the search in its order: the ascent, then the home
\* directory
Searched == Ascent(find_cwd[1], find_home) \o find_home

FirstWith(dirs) == CHOOSE i \in DOMAIN dirs : dirs[i] \in find_has /\ \A j \in 1..(i - 1) : dirs[j] \notin find_has

\* C34: from a current directory, find returns the Dockerfile of the first
\* directory of the search (the current directory, its parents up to the
\* home directory or the root, then the home directory) that holds one, and
\* None when none of them does; it looks into these directories in this
\* order, each turn of the search taking the next one, and into no other.
C34_NearestDockerfile ==
  Len(find_cwd) = 1
    => /\ \A i \in DOMAIN find_visited : i <= Len(Searched) /\ find_visited[i] = Searched[i]
       /\ find_pc = "done"
            => IF \E i \in DOMAIN Searched : Searched[i] \in find_has
               THEN find_ret = <<join_Dockerfile(Searched[FirstWith(Searched)])>>
               ELSE find_ret = <<>>
====
